---------------------------- MODULE Spec2Model ----------------------------
(***************************************************************************)
(* Social-RAG: the virality scorer (services/virality-analysis.ts) and the *)
(* trend aggregator (services/trend-analysis.ts) as state machines.        *)
(*                                                                         *)
(* JavaScript numbers are modelled as exact rationals [n |-> _, d |-> _]   *)
(* with d > 0, kept in lowest terms; the inputs are integers, so every     *)
(* value the code computes here is a rational.                             *)
(***************************************************************************)
EXTENDS Integers, Sequences, FiniteSets, TLC

VARIABLES
    vArgs,      \* the (engagement, sentiment, metadata) a caller holds
    vScore,     \* <<>> or <<what calculateViralityScore returned for vArgs>>
    store,      \* table social_media_posts: how many rows of each kind it holds
    now,        \* the wall clock, in minutes
    pc,         \* per identifyTrends invocation: where it is suspended
    tw,         \* per invocation: its timeWindow argument
    posts,      \* per invocation: the rows its fetch returned (newest first)
    heap,       \* per invocation: metadata.mentions of each fetched post object
    groups,     \* per invocation: topicGroups, in key insertion order
    cur,        \* per invocation: index in groups of the topic being analysed
    pending,    \* per invocation: what the awaited analyzeTrend resolved to
    trends,     \* per invocation: the local array trends
    result,     \* per invocation: what identifyTrends resolved to
    analysed,   \* history: the topics analyzeTrend was called for
    fetched,    \* history: the query an invocation ran and how it ended
    inserted,   \* history: rows inserted since the start
    sText,      \* the text a caller of analyzeSentiment holds
    sLex,       \* history: how sentiment.analyze(text) ended
    sOut,       \* <<>> or <<how analyzeSentiment(sText) ended>>
    rQuery,     \* the text in the search box, the query argument of RAGService.query
    rContent,   \* a candidate text a caller of calculateRelevance holds
    rRel,       \* <<>> or <<what calculateRelevance(rQuery, rContent) returned>>
    qPc,        \* where handleSearch is suspended
    qEnded,     \* history: how each awaited call of the search ended
    qRows,      \* history: the rows each sub-query returned
    qFound,     \* the local array results of retrieveContent
    qRanked,    \* <<>> or <<what retrieveContent returned>>
    qResult,    \* how RAGService.query ended
    qSave,      \* how RAGService.saveQuery ended
    uiQuery,    \* component state currentQuery: <<>> for null
    uiResults,  \* component state results
    fPost,      \* the (engagement, sentiment, metadata, content) of a post
    fOut,       \* <<>> or <<what identifyViralityFactors returned for fPost>>
    bRaw,       \* the rawPosts argument of processPosts
    bNext,      \* processPosts: index of the raw post whose processPost is awaited
    bOut,       \* processPosts: the local array processedPosts
    bResult,    \* how processPosts ended
    isRunning,  \* DataCollectionService.isRunning
    loops,      \* the collectFromPlatform calls made so far: platform and position
    started     \* history: how each startCollection call ended

vars == <<vArgs, vScore, store, now, pc, tw, posts, heap, groups, cur, pending,
          trends, result, analysed, fetched, inserted, sText, sLex, sOut,
          rQuery, rContent, rRel, qPc, qEnded, qRows, qFound, qRanked, qResult,
          qSave, uiQuery, uiResults, fPost, fOut, bRaw, bNext, bOut, bResult,
          isRunning, loops, started>>

\* the state of the data collection service and of a caller of
\* identifyViralityFactors
collectVars == <<fPost, fOut, bRaw, bNext, bOut, bResult, isRunning, loops, started>>

\* the state of the retrieval service and of the search component
ragVars == <<rQuery, rContent, rRel, qPc, qEnded, qRows, qFound, qRanked, qResult,
             qSave, uiQuery, uiResults>>

\* what the trend aggregator and the virality scorer leave alone
otherVars == <<sText, sLex, sOut, ragVars, collectVars>>

(***************************************************************************)
(* Exact rational arithmetic.                                              *)
(***************************************************************************)
Abs(x) == IF x < 0 THEN -x ELSE x

RECURSIVE Gcd(_, _)
Gcd(a, b) == IF b = 0 THEN a ELSE Gcd(b, a % b)

Rat(n, d) ==
    LET g == Gcd(Abs(n), Abs(d))
        s == IF d < 0 THEN -1 ELSE 1
    IN  [n |-> s * (n \div g), d |-> s * (d \div g)]

Int2Rat(i) == [n |-> i, d |-> 1]

RatAdd(a, b) ==
    LET l == (a.d \div Gcd(a.d, b.d)) * b.d
    IN  Rat(a.n * (l \div a.d) + b.n * (l \div b.d), l)

RatMul(a, b) ==
    LET g1 == Gcd(Abs(a.n), b.d)
        g2 == Gcd(Abs(b.n), a.d)
    IN  Rat((a.n \div g1) * (b.n \div g2), (a.d \div g2) * (b.d \div g1))

\* a <= b, compared through floors first so that no product overflows
RatLe(a, b) ==
    LET fa == a.n \div a.d
        fb == b.n \div b.d
    IN  IF fa # fb THEN fa < fb
        ELSE (a.n % a.d) * b.d <= (b.n % b.d) * a.d

RatLt(a, b) == ~RatLe(b, a)

RatMin(a, b) == IF RatLe(a, b) THEN a ELSE b

RatMax(a, b) == IF RatLe(a, b) THEN b ELSE a

Zero == Int2Rat(0)

One == Int2Rat(1)

(***************************************************************************)
(* services/virality-analysis.ts                                           *)
(***************************************************************************)
Labels == {"positive", "negative", "neutral", "mixed"}

\* lines 46-70 without the language factor of lines 65-67
ContentScoreNoLanguage(metadata) ==
    LET s1 == IF Len(metadata.hashtags) > 0
              THEN RatMin(Rat(3, 10), Rat(Len(metadata.hashtags), 10))
              ELSE Zero
        s2 == IF Len(metadata.mentions) > 0
              THEN RatAdd(s1, RatMin(Rat(2, 10), Rat(5 * Len(metadata.mentions), 100)))
              ELSE s1
        s3 == IF Len(metadata.urls) > 0 THEN RatAdd(s2, Rat(1, 10)) ELSE s2
    IN  RatMin(One, s3)

calculateContentScore(metadata) ==
    LET s0 == Zero
        s1 == IF Len(metadata.hashtags) > 0
              THEN RatAdd(s0, RatMin(Rat(3, 10), Rat(Len(metadata.hashtags), 10)))
              ELSE s0
        s2 == IF Len(metadata.mentions) > 0
              THEN RatAdd(s1, RatMin(Rat(2, 10), Rat(5 * Len(metadata.mentions), 100)))
              ELSE s1
        s3 == IF Len(metadata.urls) > 0 THEN RatAdd(s2, Rat(1, 10)) ELSE s2
        s4 == IF metadata.language = "en" THEN RatAdd(s3, Rat(1, 10)) ELSE s3
    IN  RatMin(One, s4)

\* the weighted sum of lines 22-41, before the final clamp
WeightedScore(engagement, sentiment, metadata) ==
    LET totalEngagement == engagement.likes + engagement.shares + engagement.comments
        engagementScore == RatMin(One, Rat(totalEngagement, 10000))
        likesFloor      == IF engagement.likes > 1 THEN engagement.likes ELSE 1
        shareVelocity   == Rat(engagement.shares, likesFloor)
        velocityScore   == RatMin(One, RatMul(shareVelocity, Int2Rat(2)))
        sentimentScore  == IF sentiment.label = "positive" THEN Rat(8, 10)
                           ELSE IF sentiment.label = "negative" THEN Rat(6, 10)
                           ELSE Rat(4, 10)
        contentScore    == calculateContentScore(metadata)
    IN  RatAdd(RatAdd(RatMul(engagementScore, Rat(4, 10)),
                      RatMul(velocityScore, Rat(25, 100))),
               RatAdd(RatMul(sentimentScore, Rat(2, 10)),
                      RatMul(contentScore, Rat(15, 100))))

\* line 43 without its Math.max(0, .): the lower clamp forgotten
ClampUpperOnly(score) == RatMin(One, score)

\* line 43: Math.min(1, Math.max(0, score))
ClampScore(score) == RatMin(One, RatMax(Zero, score))

calculateViralityScore(engagement, sentiment, metadata) ==
    ClampScore(WeightedScore(engagement, sentiment, metadata))

(***************************************************************************)
(* Text.  A content string is modelled as the sequence of its words; the   *)
(* tables below give, for the words the model uses, what toLowerCase,      *)
(* .length and .includes(keyword) compute on them.                         *)
(***************************************************************************)
Lower(w) ==
    CASE w = "AI" -> "ai"
      [] w = "Climate" -> "climate"
      [] w = "Breaking" -> "breaking"
      [] w = "#AI" -> "#ai"
      [] w = "#Climate" -> "#climate"
      [] w = "#Viral" -> "#viral"
      [] w = "Amazing" -> "amazing"
      [] w = "B" -> "b"
      [] OTHER -> w

WordLen(w) ==
    CASE w \in {"ai", "is"} -> 2
      [] w \in {"now", "won"} -> 3
      [] w \in {"news", "rain", "game"} -> 4
      [] w = "rally" -> 5
      [] w = "market" -> 6
      [] w = "climate" -> 7
      [] w = "breaking" -> 8
      [] OTHER -> 0

\* the keywords of categorizeTrend and identifyViralityFactors that occur as a
\* substring of the (lower-case) word w
KeysIn(w) ==
    CASE w = "ai" -> {"ai"}
      [] w = "rain" -> {"ai"}
      [] w = "now" -> {"now"}
      [] w = "game" -> {"game"}
      [] w = "market" -> {"market"}
      [] w = "climate" -> {"climate"}
      [] w = "breaking" -> {"breaking"}
      [] OTHER -> {}

\* content.toLowerCase().includes(key)
Includes(content, key) ==
    \E i \in 1..Len(content) : key \in KeysIn(Lower(content[i]))

\* an evidence string: its text, and the number formatted into it (0 if none)
Str(s) == [text |-> s, num |-> 0]

\* Number.prototype.toFixed(2), as the number of hundredths it prints
ToFixed2(r) ==
    LET m == Abs(r.n) * 100
        q == (2 * m + r.d) \div (2 * r.d)
    IN  IF r.n < 0 THEN -q ELSE q

\* line 117 without its Math.abs
RatKeepSign(r) == r

RatAbs(r) == [n |-> Abs(r.n), d |-> r.d]

TrendingTags == {"#viral", "#trending", "#fyp", "#foryou", "#trend"}

TimeKeywords == {"breaking", "just", "now", "live", "urgent", "alert"}

\* Each factor is [type, impact, evidence, alias]; alias says that evidence is
\* the very array metadata.mentions (line 141), not a fresh one.
identifyViralityFactors(engagement, sentiment, metadata, content) ==
    LET totalEngagement == engagement.likes + engagement.shares + engagement.comments
        likesFloor  == IF engagement.likes > 1 THEN engagement.likes ELSE 1
        shareRatio  == Rat(engagement.shares, likesFloor)
        trendingHashtags ==
            SelectSeq(metadata.hashtags, LAMBDA tag : Lower(tag) \in TrendingTags)
        f1 == IF totalEngagement > 1000
              THEN << [type |-> "high_engagement",
                       impact |-> RatMin(One, Rat(totalEngagement, 10000)),
                       evidence |-> << [text |-> "total engagements",
                                        num |-> totalEngagement] >>,
                       alias |-> FALSE] >>
              ELSE << >>
        f2 == IF RatLt(Rat(3, 10), shareRatio)
              THEN << [type |-> "viral_sharing",
                       impact |-> RatMin(One, shareRatio),
                       evidence |-> << [text |-> "share ratio",
                                        num |-> ToFixed2(shareRatio)] >>,
                       alias |-> FALSE] >>
              ELSE << >>
        f3 == IF sentiment.label = "positive" /\ RatLt(Rat(5, 10), sentiment.score)
              THEN << [type |-> "positive_emotion",
                       impact |-> sentiment.score,
                       evidence |-> << [text |-> "Sentiment score",
                                        num |-> ToFixed2(sentiment.score)] >>,
                       alias |-> FALSE] >>
              ELSE << >>
        f4 == IF sentiment.label = "negative" /\ RatLt(sentiment.score, Rat(-3, 10))
              THEN << [type |-> "controversial",
                       impact |-> RatAbs(sentiment.score),
                       evidence |-> << [text |-> "Sentiment score",
                                        num |-> ToFixed2(sentiment.score)] >>,
                       alias |-> FALSE] >>
              ELSE << >>
        f5 == IF Len(trendingHashtags) > 0
              THEN << [type |-> "trending_hashtags",
                       impact |-> RatMin(One, Rat(3 * Len(trendingHashtags), 10)),
                       evidence |-> [i \in 1..Len(trendingHashtags) |->
                                        Str(trendingHashtags[i])],
                       alias |-> FALSE] >>
              ELSE << >>
        f6 == IF Len(metadata.mentions) > 0
              THEN << [type |-> "influencer_mentions",
                       impact |-> RatMin(One, Rat(2 * Len(metadata.mentions), 10)),
                       evidence |-> metadata.mentions,
                       alias |-> TRUE] >>
              ELSE << >>
        f7 == IF \E k \in TimeKeywords : Includes(content, k)
              THEN << [type |-> "time_sensitive",
                       impact |-> Rat(7, 10),
                       evidence |-> << Str("Contains time-sensitive keywords") >>,
                       alias |-> FALSE] >>
              ELSE << >>
    IN  f1 \o f2 \o f3 \o f4 \o f5 \o f6 \o f7

(***************************************************************************)
(* The rows of social_media_posts.  The table is modelled by the number of *)
(* rows of each kind it holds; the kinds are the posts below.  A row's     *)
(* timestamp is a Date as SocialMediaPost declares it, except for kind 4,  *)
(* which has it as the ISO string storePosts wrote                         *)
(* (data-collection.ts line 423), so that .getTime() on it throws.         *)
(* Kinds 6 to 11 are six authors' posts under the hashtag #fyp, on four    *)
(* platforms and in three hours of the clock.                              *)
(***************************************************************************)
Kinds == 1..11

\* the kinds of rows the tables of the first specifications hold
CoreKinds == 1..5

PostTable ==
  [k \in Kinds |->
    CASE k = 1 ->
           [platform |-> "twitter", content |-> <<"Climate", "rally", "won">>,
            author |-> "alice", ts |-> 1200, tsIsDate |-> TRUE,
            engagement |-> [likes |-> 30, shares |-> 5, comments |-> 15, views |-> << >>],
            metadata |-> [hashtags |-> <<"#Climate">>, mentions |-> <<Str("@nasa")>>,
                          urls |-> << >>, language |-> "en"],
            sentiment |-> [label |-> "positive", score |-> Rat(6, 10)]]
      [] k = 2 ->
           [platform |-> "reddit", content |-> <<"AI", "is", "now">>,
            author |-> "bob", ts |-> 1170, tsIsDate |-> TRUE,
            engagement |-> [likes |-> 5, shares |-> 2, comments |-> 1, views |-> <<20>>],
            metadata |-> [hashtags |-> <<"#climate", "#AI">>, mentions |-> <<Str("@un")>>,
                          urls |-> << >>, language |-> "en"],
            sentiment |-> [label |-> "neutral", score |-> Zero]]
      [] k = 3 ->
           [platform |-> "twitter", content |-> <<"Breaking", "news">>,
            author |-> "carol", ts |-> 1190, tsIsDate |-> TRUE,
            engagement |-> [likes |-> 2000, shares |-> 100, comments |-> 400,
                            views |-> <<90000>>],
            metadata |-> [hashtags |-> <<"#ai", "#Viral">>, mentions |-> << >>,
                          urls |-> <<"https://t.co/x">>, language |-> "en"],
            sentiment |-> [label |-> "negative", score |-> Rat(-5, 10)]]
      [] k = 4 ->
           [platform |-> "youtube", content |-> <<"market", "game">>,
            author |-> "alice", ts |-> 1205, tsIsDate |-> FALSE,
            engagement |-> [likes |-> 5, shares |-> 0, comments |-> 0, views |-> <<0>>],
            metadata |-> [hashtags |-> <<"#AI">>, mentions |-> <<Str("@x")>>,
                          urls |-> << >>, language |-> "en"],
            sentiment |-> [label |-> "positive", score |-> Rat(3, 10)]]
      [] k = 5 ->
           [platform |-> "reddit", content |-> <<"rain">>,
            author |-> "bob", ts |-> 570, tsIsDate |-> TRUE,
            engagement |-> [likes |-> 1500, shares |-> 0, comments |-> 0, views |-> << >>],
            metadata |-> [hashtags |-> <<"#climate">>, mentions |-> << >>,
                          urls |-> << >>, language |-> "es"],
            sentiment |-> [label |-> "mixed", score |-> Zero]]
      [] k = 6 ->
           [platform |-> "twitter", content |-> <<"won">>,
            author |-> "dave", ts |-> 1205, tsIsDate |-> TRUE,
            engagement |-> [likes |-> 10, shares |-> 0, comments |-> 0, views |-> << >>],
            metadata |-> [hashtags |-> <<"#fyp", "#trend">>, mentions |-> <<Str("@un")>>,
                          urls |-> << >>, language |-> "en"],
            sentiment |-> [label |-> "positive", score |-> Rat(9, 10)]]
      [] k = 7 ->
           [platform |-> "reddit", content |-> <<"won">>,
            author |-> "erin", ts |-> 1204, tsIsDate |-> TRUE,
            engagement |-> [likes |-> 1500, shares |-> 600, comments |-> 0, views |-> << >>],
            metadata |-> [hashtags |-> <<"#fyp">>, mentions |-> << >>,
                          urls |-> << >>, language |-> "en"],
            sentiment |-> [label |-> "mixed", score |-> Zero]]
      [] k = 8 ->
           [platform |-> "twitter", content |-> <<"won">>,
            author |-> "frank", ts |-> 1203, tsIsDate |-> TRUE,
            engagement |-> [likes |-> 300, shares |-> 0, comments |-> 0, views |-> << >>],
            metadata |-> [hashtags |-> <<"#fyp">>, mentions |-> << >>,
                          urls |-> << >>, language |-> "en"],
            sentiment |-> [label |-> "negative", score |-> Rat(-8, 10)]]
      [] k = 9 ->
           [platform |-> "reddit", content |-> <<"won">>,
            author |-> "grace", ts |-> 1202, tsIsDate |-> TRUE,
            engagement |-> [likes |-> 200, shares |-> 100, comments |-> 0, views |-> << >>],
            metadata |-> [hashtags |-> <<"#fyp">>, mentions |-> << >>,
                          urls |-> << >>, language |-> "en"],
            sentiment |-> [label |-> "mixed", score |-> Zero]]
      [] k = 10 ->
           [platform |-> "instagram", content |-> <<"won">>,
            author |-> "heidi", ts |-> 1145, tsIsDate |-> TRUE,
            engagement |-> [likes |-> 100, shares |-> 0, comments |-> 20, views |-> << >>],
            metadata |-> [hashtags |-> <<"#fyp">>, mentions |-> <<Str("@x"), Str("@y")>>,
                          urls |-> << >>, language |-> "en"],
            sentiment |-> [label |-> "neutral", score |-> Zero]]
      [] OTHER ->
           [platform |-> "tiktok", content |-> <<"now">>,
            author |-> "ivan", ts |-> 1085, tsIsDate |-> TRUE,
            engagement |-> [likes |-> 150, shares |-> 10, comments |-> 40, views |-> <<900>>],
            metadata |-> [hashtags |-> <<"#fyp">>, mentions |-> << >>,
                          urls |-> << >>, language |-> "en"],
            sentiment |-> [label |-> "positive", score |-> Rat(3, 10)]]]

PostOf(k) == PostTable[k]

Eng(post) == post.engagement.likes + post.engagement.shares + post.engagement.comments

(***************************************************************************)
(* Array helpers.                                                          *)
(***************************************************************************)
RECURSIVE SumSeq(_)
SumSeq(s) ==
    IF Len(s) = 0 THEN 0
    ELSE IF Len(s) = 1 THEN s[1]
    ELSE LET h == Len(s) \div 2
         IN  SumSeq(SubSeq(s, 1, h)) + SumSeq(SubSeq(s, h + 1, Len(s)))

\* Array.prototype.flat / the concatenation of the arrays of ss in order
RECURSIVE Flatten(_)
Flatten(ss) ==
    IF Len(ss) = 0 THEN << >>
    ELSE IF Len(ss) = 1 THEN ss[1]
    ELSE LET h == Len(ss) \div 2
         IN  Flatten(SubSeq(ss, 1, h)) \o Flatten(SubSeq(ss, h + 1, Len(ss)))

Slice(s, n) == SubSeq(s, 1, IF Len(s) < n THEN Len(s) ELSE n)

\* the elements of s in order of first occurrence (a Set's insertion order)
Dedupe(s) ==
    LET first == {i \in 1..Len(s) : \A j \in 1..(i - 1) : s[j] # s[i]}
        nth(n) == CHOOSE i \in first : Cardinality({j \in first : j <= i}) = n
    IN  [n \in 1..Cardinality(first) |-> s[nth(n)]]

\* Array.prototype.sort with comparator (a, b) => b.key - a.key, which is
\* stable: s is a sequence of [key, item] with rational keys; an element
\* is placed after those of greater key and the earlier ones of equal key
SortDesc(s) ==
    LET ahead(j, i) == \/ RatLt(s[i].key, s[j].key)
                       \/ (RatLe(s[i].key, s[j].key) /\ RatLe(s[j].key, s[i].key) /\ j < i)
        place == [i \in 1..Len(s) |-> 1 + Cardinality({j \in 1..Len(s) : ahead(j, i)})]
    IN  [n \in 1..Len(s) |-> s[CHOOSE i \in 1..Len(s) : place[i] = n]]

Items(s) == [i \in 1..Len(s) |-> s[i].item]

(***************************************************************************)
(* services/trend-analysis.ts.  ps is the array a fetch returned, as the   *)
(* kinds of its rows; a group is an array of indices into ps (the post     *)
(* objects); h[i] is metadata.mentions of post object i.  A topic is the   *)
(* sequence of the words of its string.                                    *)
(***************************************************************************)
Lookback(timeWindow) ==
    CASE timeWindow = "hour" -> 60
      [] timeWindow = "day" -> 24 * 60
      [] timeWindow = "week" -> 7 * 24 * 60
      [] OTHER -> 24 * 60

Repeat(x, n) == [i \in 1..n |-> x]

RowsOf(st, order) ==
    Flatten([o \in 1..Len(order) |-> Repeat(order[o].item, st[order[o].item])])

\* the query of lines 53-57 ordering by timestamp with ascending: true
SelectRowsOldestFirst(st, startTime) ==
    LET kept  == {k \in Kinds : PostOf(k).ts >= startTime}
        keyed == [k \in Kinds |-> [key |-> Int2Rat(-PostOf(k).ts), item |-> k]]
        order == SelectSeq(SortDesc(keyed), LAMBDA e : e.item \in kept)
    IN  RowsOf(st, order)

\* the query of lines 53-57 on table st: timestamp >= startTime, newest first
SelectRows(st, startTime) ==
    LET kept  == {k \in Kinds : PostOf(k).ts >= startTime}
        keyed == [k \in Kinds |-> [key |-> Int2Rat(PostOf(k).ts), item |-> k]]
        order == SelectSeq(SortDesc(keyed), LAMBDA e : e.item \in kept)
    IN  RowsOf(st, order)

extractKeyPhrases(content) ==
    LET lower == [i \in 1..Len(content) |-> Lower(content[i])]
        words == SelectSeq(lower, LAMBDA w : WordLen(w) > 3)
        n     == Len(words)
        two   == [i \in 1..(IF n > 1 THEN n - 1 ELSE 0) |-> <<words[i], words[i + 1]>>]
        three == [i \in 1..(IF n > 2 THEN n - 2 ELSE 0) |->
                     <<words[i], words[i + 1], words[i + 2]>>]
    IN  Slice(two \o three, 10)

extractTopics(post) ==
    LET tags == [i \in 1..Len(post.metadata.hashtags) |->
                    <<Lower(post.metadata.hashtags[i])>>]
    IN  Dedupe(tags \o extractKeyPhrases(post.content))

\* extractTopics of each kind of row
PostTopics == [k \in Kinds |-> extractTopics(PostOf(k))]

\* lines 69-79: the keys of groups in order of first insertion, and under each
\* key the posts pushed to it, in the order of posts
groupPostsByTopic(ps) ==
    LET pushes == Flatten([i \in 1..Len(ps) |->
                      [j \in 1..Len(PostTopics[ps[i]]) |->
                          [topic |-> PostTopics[ps[i]][j], post |-> i]]])
        keys   == Dedupe([n \in 1..Len(pushes) |-> pushes[n].topic])
        under(topic) == SelectSeq(pushes, LAMBDA e : e.topic = topic)
    IN  [g \in 1..Len(keys) |->
            [topic   |-> keys[g],
             members |-> [n \in 1..Len(under(keys[g])) |-> under(keys[g])[n].post]]]

\* line 179 calls .getTime() on the first and the last post's timestamp
MetricsThrows(ps, members) ==
    \/ ~PostOf(ps[members[1]]).tsIsDate
    \/ ~PostOf(ps[members[Len(members)]]).tsIsDate

calculateTrendMetrics(ps, members) ==
    LET totalMentions   == Len(members)
        totalEngagement == SumSeq([i \in 1..Len(members) |-> Eng(PostOf(ps[members[i]]))])
        totalReach      ==
            SumSeq([i \in 1..Len(members) |->
                       LET v == PostOf(ps[members[i]]).engagement.views
                       IN  IF v = << >> THEN 0 ELSE v[1]])
        timeSpan  == PostOf(ps[members[1]]).ts - PostOf(ps[members[Len(members)]]).ts
        hoursSpan == Rat(timeSpan, 60)
        hours     == RatMax(One, hoursSpan)
    IN  [mentions   |-> totalMentions,
         engagement |-> totalEngagement,
         reach      |-> totalReach,
         growthRate |-> Rat(totalMentions * hours.d, hours.n),
         velocity   |-> Rat(totalEngagement * hours.d, hours.n)]

CountLabel(ps, members, label) ==
    Cardinality({i \in 1..Len(members) : PostOf(ps[members[i]]).sentiment.label = label})

\* lines 214-215
Overall(positive, negative, neutral) ==
    IF positive > negative THEN "positive"
    ELSE IF negative > positive THEN "negative"
    ELSE "neutral"

\* the switch of lines 201-210 with `case 'neutral'` in place of `default`
NeutralCountStrict(ps, members) == CountLabel(ps, members, "neutral")

\* the default branch of the switch of lines 201-210
NeutralCount(ps, members) ==
    Cardinality({i \in 1..Len(members) :
        PostOf(ps[members[i]]).sentiment.label \notin {"positive", "negative"}})

analyzeSentimentDistribution(ps, members) ==
    LET positive == CountLabel(ps, members, "positive")
        negative == CountLabel(ps, members, "negative")
        neutral  == NeutralCount(ps, members)
        total    == Len(members)
    IN  [positive |-> Rat(positive, total),
         negative |-> Rat(negative, total),
         neutral  |-> Rat(neutral, total),
         overall  |-> Overall(positive, negative, neutral)]

findRelatedTopics(topic, ps, members) ==
    LET tags == Flatten([i \in 1..Len(members) |->
                    LET hs == PostOf(ps[members[i]]).metadata.hashtags
                    IN  [j \in 1..Len(hs) |-> Lower(hs[j])]])
        others == SelectSeq(tags, LAMBDA t : <<t>> # [j \in 1..Len(topic) |-> Lower(topic[j])])
    IN  Slice(Dedupe(others), 10)

determinePrimaryPlatform(ps, members) ==
    LET plats == Dedupe([i \in 1..Len(members) |-> PostOf(ps[members[i]]).platform])
        count(pl) == Cardinality({i \in 1..Len(members) :
                                     PostOf(ps[members[i]]).platform = pl})
        best == {j \in 1..Len(plats) :
                    /\ count(plats[j]) > 0
                    /\ \A l \in 1..Len(plats) :
                          /\ count(plats[l]) <= count(plats[j])
                          /\ (l < j => count(plats[l]) < count(plats[j]))}
    IN  IF best = {} THEN "twitter" ELSE plats[CHOOSE j \in best : TRUE]

\* lines 239-263 without the sort of line 251: the authors in the order of
\* their first post
InfluencersUnsorted(ps, members) ==
    LET authorOf(i) == PostOf(ps[members[i]]).author
        authors == Dedupe([i \in 1..Len(members) |-> authorOf(i)])
        mine(a) == SelectSeq(members, LAMBDA m : PostOf(ps[m]).author = a)
        total(a) == SumSeq([i \in 1..Len(mine(a)) |-> Eng(PostOf(ps[mine(a)[i]]))])
        top == Slice(authors, 5)
    IN  [j \in 1..Len(top) |->
            LET a == top[j]
                first == PostOf(ps[mine(a)[1]]).metadata.hashtags
            IN  [id |-> a,
                 username |-> a,
                 platform |-> determinePrimaryPlatform(ps, members),
                 followers |-> 0,
                 engagementRate |-> Rat(total(a), Len(mine(a))),
                 influence |-> Rat(total(a), Len(members)),
                 topics |-> << IF first = << >> THEN "" ELSE first[1] >>,
                 recentPosts |-> Slice(mine(a), 3)]]

identifyInfluencers(ps, members) ==
    LET authorOf(i) == PostOf(ps[members[i]]).author
        authors == Dedupe([i \in 1..Len(members) |-> authorOf(i)])
        mine(a) == SelectSeq(members, LAMBDA m : PostOf(ps[m]).author = a)
        total(a) == SumSeq([i \in 1..Len(mine(a)) |-> Eng(PostOf(ps[mine(a)[i]]))])
        keyed == [j \in 1..Len(authors) |->
                     [key |-> Int2Rat(total(authors[j])), item |-> authors[j]]]
        top == Slice(Items(SortDesc(keyed)), 5)
    IN  [j \in 1..Len(top) |->
            LET a == top[j]
                first == PostOf(ps[mine(a)[1]]).metadata.hashtags
            IN  [id |-> a,
                 username |-> a,
                 platform |-> determinePrimaryPlatform(ps, members),
                 followers |-> 0,
                 engagementRate |-> Rat(total(a), Len(mine(a))),
                 influence |-> Rat(total(a), Len(members)),
                 topics |-> << IF first = << >> THEN "" ELSE first[1] >>,
                 recentPosts |-> Slice(mine(a), 3)]]

\* lines 307-324 with >= 0.6 at line 317
DominantAtLeastSixty(ps, hourPosts) ==
    LET positive == CountLabel(ps, hourPosts, "positive")
        negative == CountLabel(ps, hourPosts, "negative")
        neutral  == CountLabel(ps, hourPosts, "neutral")
        total    == Len(hourPosts)
        m1       == IF positive > negative THEN positive ELSE negative
        maxCount == IF m1 > neutral THEN m1 ELSE neutral
    IN  IF 10 * maxCount >= 6 * total
        THEN IF positive = maxCount THEN "positive"
             ELSE IF negative = maxCount THEN "negative"
             ELSE "neutral"
        ELSE "mixed"

\* sentimentCounts has no key 'mixed': line 311 leaves the three counters alone
getDominantSentiment(ps, hourPosts) ==
    LET positive == CountLabel(ps, hourPosts, "positive")
        negative == CountLabel(ps, hourPosts, "negative")
        neutral  == CountLabel(ps, hourPosts, "neutral")
        total    == Len(hourPosts)
        m1       == IF positive > negative THEN positive ELSE negative
        maxCount == IF m1 > neutral THEN m1 ELSE neutral
    IN  IF 10 * maxCount > 6 * total
        THEN IF positive = maxCount THEN "positive"
             ELSE IF negative = maxCount THEN "negative"
             ELSE "neutral"
        ELSE "mixed"

\* line 278 calls .getTime() on every post's timestamp
TimelineThrows(ps, members) ==
    \E i \in 1..Len(members) : ~PostOf(ps[members[i]]).tsIsDate

\* lines 265-305 without the sort of line 304: the points in the order the
\* hours were first met
TimelineUnsorted(ps, members) ==
    LET hourOf(m) == PostOf(ps[m]).ts - (PostOf(ps[m]).ts % 60)
        hours == Dedupe([i \in 1..Len(members) |-> hourOf(members[i])])
        point(hr) ==
            LET hourPosts == SelectSeq(members, LAMBDA m : hourOf(m) = hr)
            IN  [timestamp |-> hr,
                 mentions |-> Len(hourPosts),
                 engagement |-> SumSeq([i \in 1..Len(hourPosts) |->
                                           Eng(PostOf(ps[hourPosts[i]]))]),
                 sentiment |-> getDominantSentiment(ps, hourPosts)]
    IN  [j \in 1..Len(hours) |-> point(hours[j])]

createTrendTimeline(ps, members) ==
    LET hourOf(m) == PostOf(ps[m]).ts - (PostOf(ps[m]).ts % 60)
        hours == Dedupe([i \in 1..Len(members) |-> hourOf(members[i])])
        point(hr) ==
            LET hourPosts == SelectSeq(members, LAMBDA m : hourOf(m) = hr)
            IN  [timestamp |-> hr,
                 mentions |-> Len(hourPosts),
                 engagement |-> SumSeq([i \in 1..Len(hourPosts) |->
                                           Eng(PostOf(ps[hourPosts[i]]))]),
                 sentiment |-> getDominantSentiment(ps, hourPosts)]
        keyed == [j \in 1..Len(hours) |->
                     [key |-> Int2Rat(-hours[j]), item |-> point(hours[j])]]
    IN  Items(SortDesc(keyed))

\* One factor f of post object p merged into acc = [factors, heap] (lines
\* 344-355).  A merged factor is [type, impact, own, ref]: its evidence array
\* is heap[ref] when ref # 0 (the array is p's metadata.mentions, taken over
\* by reference at line 353) and own otherwise.
MergeFactor(acc, f, p) ==
    LET fs   == acc.factors
        hit  == {i \in 1..Len(fs) : fs[i].type = f.type}
        vals == IF f.alias THEN acc.heap[p] ELSE f.evidence
    IN  IF hit # {}
        THEN LET i == CHOOSE x \in hit : \A y \in hit : x <= y
                 e == fs[i]
             IN  IF e.ref # 0
                 THEN [factors |-> [fs EXCEPT ![i].impact = RatMax(e.impact, f.impact)],
                       heap    |-> [acc.heap EXCEPT ![e.ref] = @ \o vals]]
                 ELSE [factors |-> [fs EXCEPT ![i].impact = RatMax(e.impact, f.impact),
                                              ![i].own = @ \o vals],
                       heap    |-> acc.heap]
        ELSE [factors |-> Append(fs, [type   |-> f.type,
                                      impact |-> f.impact,
                                      own    |-> IF f.alias THEN << >> ELSE f.evidence,
                                      ref    |-> IF f.alias THEN p ELSE 0]),
              heap    |-> acc.heap]

\* the loop of lines 344-355 over a post's factors, acc being the state the
\* iteration before left
RECURSIVE MergeFactors(_, _, _)
MergeFactors(acc, pf, p) ==
    IF pf = << >> \/ acc.heap = << >> THEN acc
    ELSE MergeFactors(MergeFactor(acc, Head(pf), p), Tail(pf), p)

\* the loop of lines 335-357 over the posts of highest engagement
RECURSIVE MergePosts(_, _, _)
MergePosts(acc, ps, high) ==
    IF high = << >> \/ acc.heap = << >> THEN acc
    ELSE MergePosts(
             MergeFactors(acc,
                          identifyViralityFactors(
                              PostOf(ps[Head(high)]).engagement,
                              PostOf(ps[Head(high)]).sentiment,
                              [PostOf(ps[Head(high)]).metadata EXCEPT
                                  !.mentions = acc.heap[Head(high)]],
                              PostOf(ps[Head(high)]).content),
                          Head(high)),
             ps, Tail(high))

\* posts.sort(...) of lines 330-332 reorders the group array itself
SortedByEngagement(ps, members) ==
    Items(SortDesc([i \in 1..Len(members) |->
                       [key |-> Int2Rat(Eng(PostOf(ps[members[i]]))), item |-> members[i]]]))

\* lines 329-359 on the group array as the sort left it
FactorsOfSorted(ps, sorted, h) ==
    [MergePosts([factors |-> << >>, heap |-> h], ps, Slice(sorted, 10))
        EXCEPT !.factors = Slice(@, 5)]

\* [factors, heap]: the factors returned and the mentions arrays afterwards
identifyTrendViralityFactors(ps, members, h) ==
    FactorsOfSorted(ps, SortedByEngagement(ps, members), h)

categorizeTrend(topic, ps, members) ==
    LET has(key) == \E i \in 1..Len(members) : Includes(PostOf(ps[members[i]]).content, key)
    IN  IF has("ai") \/ has("tech") \/ has("software") THEN "technology"
        ELSE IF has("politics") \/ has("election") \/ has("government") THEN "politics"
        ELSE IF has("movie") \/ has("music") \/ has("celebrity") THEN "entertainment"
        ELSE IF has("sport") \/ has("game") \/ has("team") THEN "sports"
        ELSE IF has("business") \/ has("company") \/ has("market") THEN "business"
        ELSE IF has("health") \/ has("medical") \/ has("covid") THEN "health"
        ELSE IF has("climate") \/ has("environment") \/ has("green") THEN "environment"
        ELSE IF has("justice") \/ has("protest") \/ has("rights") THEN "social_justice"
        ELSE "memes"

\* topic.startsWith('#')
StartsWithHash(topic) ==
    Len(topic) = 1 /\ topic[1] \in {"#ai", "#climate", "#viral", "#fyp", "#trend"}

\* The Trend of lines 145-160, vf being what identifyTrendViralityFactors
\* returned at line 140: the group array is in the order its sort left when
\* lines 143 and 149 read it.  Ids and creation times are left out.
TrendWith(topic, ps, members, vf) ==
    [threw |-> FALSE, escaped |-> FALSE,
     trend |-> << [topic |-> topic,
                   hashtag |-> IF StartsWithHash(topic) THEN <<topic>> ELSE << >>,
                   platform |-> determinePrimaryPlatform(ps, SortedByEngagement(ps, members)),
                   category |-> categorizeTrend(topic, ps, SortedByEngagement(ps, members)),
                   metrics |-> calculateTrendMetrics(ps, members),
                   sentiment |-> analyzeSentimentDistribution(ps, members),
                   relatedTopics |-> findRelatedTopics(topic, ps, members),
                   influencers |-> identifyInfluencers(ps, members),
                   timeline |-> createTrendTimeline(ps, members),
                   viralityFactors |-> vf.factors] >>,
     heap |-> vf.heap]

\* the try block of analyzeTrend (lines 124-161) when nothing in it throws
TrendOf(topic, ps, members, h) ==
    TrendWith(topic, ps, members, identifyTrendViralityFactors(ps, members, h))

\* analyzeTrend without its try/catch: the error escapes to identifyTrends
AnalyzeTrendUncaught(topic, ps, members, h) ==
    IF MetricsThrows(ps, members) \/ TimelineThrows(ps, members)
    THEN [threw |-> TRUE, escaped |-> TRUE, trend |-> << >>, heap |-> h]
    ELSE TrendOf(topic, ps, members, h)

\* analyzeTrend: [threw, escaped, trend, heap], trend being << >> for the null
\* of the catch (lines 162-165) and heap the mentions arrays as the call
\* leaves them
analyzeTrend(topic, ps, members, h) ==
    IF MetricsThrows(ps, members) \/ TimelineThrows(ps, members)
    THEN [threw |-> TRUE, escaped |-> FALSE, trend |-> << >>, heap |-> h]
    ELSE TrendOf(topic, ps, members, h)

isSignificantTrend(trend) ==
    /\ trend.metrics.mentions >= 10
    /\ RatLe(Int2Rat(100), trend.metrics.velocity)
    /\ RatLe(Int2Rat(2), trend.metrics.growthRate)

(***************************************************************************)
(* identifyTrends as a process.  An invocation runs without interruption   *)
(* from one await to the next: the await of the query (line 53) and the    *)
(* await of each analyzeTrend call (line 20).                              *)
(***************************************************************************)
Invocations == {1, 2}

\* rows of kind 2, and of each other kind, the table holds at the start
MaxBody == 10

MaxExtra == 1

\* rows inserted, and half hours passing, while invocations run
MaxInserts == 1

MaxTicks == 1

\* the clock at the start: 20:10
Now0 == 20 * 60 + 10

TimeWindows == {"hour", "day", "week"}

\* line 63 answering from a cache of the rows an earlier invocation was given
\* for the same query result, so that both hold the same post objects
CachedRows(inv, ps) ==
    IF \E o \in Invocations \ {inv} : pc[o] \in {"awaiting", "done"} /\ posts[o] = ps
    THEN heap[CHOOSE o \in Invocations \ {inv} :
                  pc[o] \in {"awaiting", "done"} /\ posts[o] = ps]
    ELSE [i \in 1..Len(ps) |-> PostOf(ps[i]).metadata.mentions]

\* line 63: the post objects of an invocation are the rows its own query
\* returned, each with its own metadata.mentions array
FreshRows(inv, ps) == [i \in 1..Len(ps) |-> PostOf(ps[i]).metadata.mentions]

\* line 19 with > in place of >=
QualifiesStrict(members) == Len(members) > 5

\* line 19
Qualifies(members) == Len(members) >= 5

\* the first group at index >= from that passes line 19, or 0
NextTopic(gs, from) ==
    LET ok == {g \in from..Len(gs) : Qualifies(gs[g].members)}
    IN  IF ok = {} THEN 0 ELSE CHOOSE g \in ok : \A x \in ok : g <= x

\* line 28 left out
Unsorted(trs) == trs

\* line 28
SortByVelocity(trs) ==
    Items(SortDesc([i \in 1..Len(trs) |-> [key |-> trs[i].metrics.velocity, item |-> trs[i]]]))

\* line 21 with the significance test left out
KeepAll(trs, pend) == trs \o pend

\* lines 21-23
KeepSignificant(trs, pend) ==
    IF pend # << >> /\ isSignificantTrend(pend[1]) THEN Append(trs, pend[1]) ELSE trs

\* what the caller reads in a returned Trend: evidence arrays and post objects
\* are followed through the heap as it is when identifyTrends returns
ResolveTrend(t, ps, h) ==
    [t EXCEPT
        !.viralityFactors =
            [i \in 1..Len(@) |->
                [type |-> @[i].type, impact |-> @[i].impact,
                 evidence |-> IF @[i].ref # 0 THEN h[@[i].ref] ELSE @[i].own]],
        !.influencers =
            [i \in 1..Len(@) |->
                [@[i] EXCEPT !.recentPosts =
                    [j \in 1..Len(@) |-> [post |-> @[j], kind |-> ps[@[j]],
                                          mentions |-> h[@[j]]]]]]]

Returned(trs, ps, h) ==
    LET sorted == SortByVelocity(trs)
    IN  [state |-> "returned",
         trends |-> [i \in 1..Len(sorted) |-> ResolveTrend(sorted[i], ps, h)]]

\* the catch of lines 29-32 rethrowing
CatchRethrows == [state |-> "raised", trends |-> << >>]

\* the catch of lines 29-32
Catch == [state |-> "returned", trends |-> << >>]

NoResult == [state |-> "none", trends |-> << >>]

\* line 20 reached for group g: r is what analyzeTrend did
Analysed(gs, g, r, done) ==
    IF r.escaped
    THEN [pc |-> "done", cur |-> 0, pending |-> << >>, heap |-> r.heap,
          result |-> Catch, analysed |-> Append(done, gs[g].topic)]
    ELSE [pc |-> "awaiting", cur |-> g, pending |-> r.trend, heap |-> r.heap,
          result |-> NoResult, analysed |-> Append(done, gs[g].topic)]

\* the loop of lines 18-25 at group g, or at its end (line 28) when g = 0
AtTopic(ps, gs, g, h, trs, done) ==
    IF g = 0
    THEN [pc |-> "done", cur |-> 0, pending |-> << >>, heap |-> h,
          result |-> Returned(trs, ps, h), analysed |-> done]
    ELSE Analysed(gs, g, analyzeTrend(gs[g].topic, ps, gs[g].members, h), done)

\* The loop of lines 18-25 from group index `from` on, up to the next await or
\* to the return: the new values of the invocation's variables.
RunLoop(ps, gs, from, h, trs, done) == AtTopic(ps, gs, NextTopic(gs, from), h, trs, done)

Apply(inv, step) ==
    /\ pc' = [pc EXCEPT ![inv] = step.pc]
    /\ cur' = [cur EXCEPT ![inv] = step.cur]
    /\ pending' = [pending EXCEPT ![inv] = step.pending]
    /\ heap' = [heap EXCEPT ![inv] = step.heap]
    /\ result' = [result EXCEPT ![inv] = step.result]
    /\ analysed' = [analysed EXCEPT ![inv] = step.analysed]

\* identifyTrends(timeWindow) is called: lines 8-10 and 36-57, up to the await
Call(inv, timeWindow) ==
    /\ pc[inv] = "idle"
    /\ pc' = [pc EXCEPT ![inv] = "fetching"]
    /\ tw' = [tw EXCEPT ![inv] = timeWindow]
    /\ fetched' = [fetched EXCEPT ![inv] =
                      [outcome |-> "pending", start |-> now - Lookback(timeWindow),
                       table |-> store]]
    /\ UNCHANGED <<otherVars, vArgs, vScore, store, now, posts, heap, groups, cur, pending,
                   trends, result, analysed, inserted>>

\* the query resolves with rows: lines 59-63, 13-20
FetchOk(inv) ==
    /\ pc[inv] = "fetching"
    /\ LET ps == SelectRows(store, fetched[inv].start)
           gs == groupPostsByTopic(ps)
           h0 == FreshRows(inv, ps)
       IN  /\ posts' = [posts EXCEPT ![inv] = ps]
           /\ groups' = [groups EXCEPT ![inv] = gs]
           /\ fetched' = [fetched EXCEPT ![inv].outcome = "ok", ![inv].table = store]
           /\ LET step == RunLoop(ps, gs, 1, h0, << >>, << >>)
               IN  Apply(inv, step)
    /\ UNCHANGED <<otherVars, vArgs, vScore, store, now, tw, trends, inserted>>

\* the query resolves with { error }: line 60 throws it, line 29 catches it
FetchError(inv) ==
    /\ pc[inv] = "fetching"
    /\ pc' = [pc EXCEPT ![inv] = "done"]
    /\ fetched' = [fetched EXCEPT ![inv].outcome = "error", ![inv].table = store]
    /\ result' = [result EXCEPT ![inv] = Catch]
    /\ UNCHANGED <<otherVars, vArgs, vScore, store, now, tw, posts, heap, groups, cur, pending,
                   trends, analysed, inserted>>

\* the awaited query rejects: line 29 catches it
FetchThrows(inv) ==
    /\ pc[inv] = "fetching"
    /\ pc' = [pc EXCEPT ![inv] = "done"]
    /\ fetched' = [fetched EXCEPT ![inv].outcome = "throws", ![inv].table = store]
    /\ result' = [result EXCEPT ![inv] = Catch]
    /\ UNCHANGED <<otherVars, vArgs, vScore, store, now, tw, posts, heap, groups, cur, pending,
                   trends, analysed, inserted>>

\* the awaited analyzeTrend resolves: lines 21-25, then 18-20 or 28
Resume(inv) ==
    /\ pc[inv] = "awaiting"
    /\ LET trs == KeepSignificant(trends[inv], pending[inv])
       IN  /\ trends' = [trends EXCEPT ![inv] = trs]
           /\ LET step == RunLoop(posts[inv], groups[inv], cur[inv] + 1,
                                   heap[inv], trs, analysed[inv])
               IN  Apply(inv, step)
    /\ UNCHANGED <<otherVars, vArgs, vScore, store, now, tw, posts, groups, fetched, inserted>>

\* storePosts inserts one more row of kind k (data-collection.ts lines 409-437)
StorePost(k) ==
    /\ inserted < MaxInserts
    /\ store' = [store EXCEPT ![k] = @ + 1]
    /\ inserted' = inserted + 1
    /\ UNCHANGED <<otherVars, vArgs, vScore, now, pc, tw, posts, heap, groups, cur, pending,
                   trends, result, analysed, fetched>>

\* half an hour passes
Tick ==
    /\ now < Now0 + 30 * MaxTicks
    /\ now' = now + 30
    /\ UNCHANGED <<otherVars, vArgs, vScore, store, pc, tw, posts, heap, groups, cur, pending,
                   trends, result, analysed, fetched, inserted>>

(***************************************************************************)
(* calculateViralityScore called on the arguments a caller holds.          *)
(***************************************************************************)
Score ==
    /\ vScore = << >>
    /\ vScore' = << calculateViralityScore(vArgs.engagement, vArgs.sentiment,
                                           vArgs.metadata) >>
    /\ UNCHANGED <<otherVars, vArgs, store, now, pc, tw, posts, heap, groups, cur, pending,
                   trends, result, analysed, fetched, inserted>>

\* identifyViralityFactors called on the post a caller holds
Factors ==
    /\ fPost # << >>
    /\ fOut = << >>
    /\ fOut' = << identifyViralityFactors(fPost[1].engagement, fPost[1].sentiment,
                                           fPost[1].metadata, fPost[1].content) >>
    /\ UNCHANGED <<vArgs, vScore, store, now, pc, tw, posts, heap, groups, cur, pending,
                   trends, result, analysed, fetched, inserted, sText, sLex, sOut, ragVars,
                   fPost, bRaw, bNext, bOut, bResult, isRunning, loops, started>>

(***************************************************************************)
(* analyzeSentiment (sentiment scorer).  A text is the sequence of its     *)
(* words, or NotAString for a value that is no string (the parameter type  *)
(* is erased at run time).  sentiment.analyze is the package `sentiment`:  *)
(* it returns an integer score, the sum of a valence of -5..5 per token,   *)
(* or throws.                                                              *)
(***************************************************************************)
NotAString == << "<undefined>" >>

MaxRaw == 12

MaxRepeat == 6

Vocabulary == {"Amazing", "sad", "hate", "scared", "gross", "the"}

Texts ==
    {Repeat(w, n) \o Repeat(v, k) :
        w \in Vocabulary, n \in 0..MaxRepeat, v \in Vocabulary, k \in 0..1}
    \cup {NotAString}

\* the ways line 9 can end for a text
LexOutcomes(text) ==
    {[threw |-> TRUE, score |-> 0]}
    \cup {[threw |-> FALSE, score |-> r] :
             r \in {x \in (-MaxRaw)..MaxRaw :
                       text # NotAString /\ Abs(x) <= 5 * Len(text)} \cup {0}}

\* text.match(regex) counts the whole-word occurrences of each emotion word
calculateEmotionScore(text, emotionWords) ==
    RatMin(One, Rat(Cardinality({i \in 1..Len(text) : text[i] \in emotionWords}), 5))

\* the word lists of lines 60-65
EmotionWords ==
    [joy      |-> {"happy", "joy", "excited", "great", "amazing", "wonderful", "love",
                   "lol", "haha"},
     sadness  |-> {"sad", "depressed", "crying", "miss", "lost", "alone", "hurt"},
     anger    |-> {"angry", "mad", "hate", "furious", "rage", "annoyed", "fuck"},
     fear     |-> {"scared", "afraid", "terrified", "worried", "anxious", "panic"},
     surprise |-> {"wow", "omg", "unexpected", "shocked", "surprised", "amazing"},
     disgust  |-> {"disgusting", "gross", "nasty", "awful", "terrible"}]

\* line 57 calls text.toLowerCase(), which throws on a value that is no string
EmotionsThrow(text) == text = NotAString

analyzeEmotions(text) ==
    LET lowerText == [i \in 1..Len(text) |-> Lower(text[i])]
    IN  [joy      |-> calculateEmotionScore(lowerText, EmotionWords.joy),
         sadness  |-> calculateEmotionScore(lowerText, EmotionWords.sadness),
         anger    |-> calculateEmotionScore(lowerText, EmotionWords.anger),
         fear     |-> calculateEmotionScore(lowerText, EmotionWords.fear),
         surprise |-> calculateEmotionScore(lowerText, EmotionWords.surprise),
         disgust  |-> calculateEmotionScore(lowerText, EmotionWords.disgust)]

\* line 12: Math.max(-1, Math.min(1, result.score / 10))
NormalizedScore(raw) == RatMax(Int2Rat(-1), RatMin(One, Rat(raw, 10)))

\* lines 16-22 with >= and <= for > and <
LabelOfInclusive(score) ==
    IF RatLe(Rat(1, 10), score) THEN "positive"
    ELSE IF RatLe(score, Rat(-1, 10)) THEN "negative"
    ELSE "neutral"

\* lines 16-22
LabelOf(score) ==
    IF RatLt(Rat(1, 10), score) THEN "positive"
    ELSE IF RatLt(score, Rat(-1, 10)) THEN "negative"
    ELSE "neutral"

\* line 28 without its Math.max(0.5, .) and Math.min(0.95, .)
ConfidenceUnclamped(score) ==
    RatAdd(RatMul(RatAbs(score), Rat(8, 10)), Rat(2, 10))

\* line 28
Confidence(score) ==
    RatMin(Rat(95, 100),
           RatMax(Rat(5, 10), RatAdd(RatMul(RatAbs(score), Rat(8, 10)), Rat(2, 10))))

NeutralDefault ==
    [score |-> Zero, magnitude |-> 0, label |-> "neutral",
     emotions |-> [joy |-> Zero, sadness |-> Zero, anger |-> Zero,
                   fear |-> Zero, surprise |-> Zero, disgust |-> Zero],
     confidence |-> Rat(5, 10)]

\* the catch of lines 37-53 passing the error on instead
SentimentCatchRethrows == [state |-> "raised", value |-> << >>]

\* the catch of lines 37-53
SentimentCatch == [state |-> "returned", value |-> <<NeutralDefault>>]

\* analyzeSentiment(text) when sentiment.analyze(text) ended as lex did
analyzeSentiment(text, lex) ==
    IF lex.threw \/ EmotionsThrow(text) THEN SentimentCatch
    ELSE [state |-> "returned",
          value |-> << [score      |-> NormalizedScore(lex.score),
                        magnitude  |-> Abs(lex.score),
                        label      |-> LabelOf(NormalizedScore(lex.score)),
                        emotions   |-> analyzeEmotions(text),
                        confidence |-> Confidence(NormalizedScore(lex.score))] >>]

\* analyzeSentiment(sText) is called and resolves: it awaits nothing
AnalyzeSentiment ==
    /\ sOut = << >>
    /\ \E lex \in LexOutcomes(sText) :
          /\ sLex' = <<lex>>
          /\ sOut' = <<analyzeSentiment(sText, lex)>>
    /\ UNCHANGED <<collectVars, vArgs, vScore, store,
                   now, pc, tw, posts, heap, groups, cur,
                   pending, trends, result, analysed, fetched, inserted, sText, ragVars>>

(***************************************************************************)
(* RAGService (services/virality-analysis.ts lines 199-457) and the search *)
(* component's handleSearch.  Here a text is the sequence of its           *)
(* characters.  Ids, summaries, insights and the search time are left out. *)
(***************************************************************************)
Chars == {"a", "B", " "}

MaxChars == 3

Strings == UNION {[1..n -> Chars] : n \in 0..MaxChars}

toLowerCase(str) == [i \in 1..Len(str) |-> Lower(str[i])]

\* str.trim() is the empty string
IsBlank(str) == \A i \in 1..Len(str) : str[i] = " "

\* str.split(/\s+/) scanned from character i on: done are the pieces cut off
\* so far, tok the piece in progress; a whitespace character that follows a
\* whitespace character belongs to the same separator
RECURSIVE SplitFrom(_, _, _, _)
SplitFrom(str, i, done, tok) ==
    IF i > Len(str) THEN Append(done, tok)
    ELSE IF str[i] = " "
         THEN IF i > 1 /\ str[i - 1] = " "
              THEN SplitFrom(str, i + 1, done, tok)
              ELSE SplitFrom(str, i + 1, Append(done, tok), << >>)
         ELSE SplitFrom(str, i + 1, done, Append(tok, str[i]))

Split(str) == SplitFrom(str, 1, << >>, << >>)

\* whole.includes(part)
StrIncludes(whole, part) ==
    \E i \in 0..(Len(whole) - Len(part)) : SubSeq(whole, i + 1, i + Len(part)) = part

\* lines 352-364 with the test of line 358 in one direction only
RelevanceOneWay(query, content) ==
    LET queryWords   == Split(toLowerCase(query))
        contentWords == Split(toLowerCase(content))
        matches == Cardinality({i \in 1..Len(queryWords) :
                       \E j \in 1..Len(contentWords) :
                           StrIncludes(contentWords[j], queryWords[i])})
    IN  Rat(matches, Len(queryWords))

calculateRelevance(query, content) ==
    LET queryWords   == Split(toLowerCase(query))
        contentWords == Split(toLowerCase(content))
        matches == Cardinality({i \in 1..Len(queryWords) :
                       \E j \in 1..Len(contentWords) :
                           \/ StrIncludes(contentWords[j], queryWords[i])
                           \/ StrIncludes(queryWords[i], contentWords[j])})
    IN  Rat(matches, Len(queryWords))

\* calculateRelevance called on the texts a caller holds
Relevance ==
    /\ rRel = << >>
    /\ rRel' = << calculateRelevance(rQuery, rContent) >>
    /\ UNCHANGED <<collectVars, vArgs, vScore, store,
                   now, pc, tw, posts, heap, groups, cur,
                   pending, trends, result, analysed, fetched, inserted,
                   sText, sLex, sOut, rQuery, rContent, qPc, qEnded, qRows, qFound,
                   qRanked, qResult, qSave, uiQuery, uiResults>>

\* the three sub-queries of retrieveContent, in the order it awaits them
Sources == <<"post", "trend", "context">>

MaxPostRows == 7

MaxTrendRows == 5

MaxContextRows == 3

MaxGenerated == 2

\* the most rows a sub-query returns here; the store's own limits are 20, 10, 5
MaxRows(src) ==
    CASE src = "post" -> IF MaxPostRows < 20 THEN MaxPostRows ELSE 20
      [] src = "trend" -> IF MaxTrendRows < 10 THEN MaxTrendRows ELSE 10
      [] src = "context" -> IF MaxContextRows < 5 THEN MaxContextRows ELSE 5

\* the text calculateRelevance is given for row i of a table: post.content,
\* trend.topic, context.description
RowTexts(src) ==
    CASE src = "post" ->
           << <<"B">>, <<"a">>, <<"B", "a">>, <<"B", " ", "a">>, <<"B">>,
              <<"a", " ", "B">>, << >> >>
      [] src = "trend" ->
           << <<"B">>, <<"a">>, <<"a", "B">>, <<"B", " ", "B">>, <<"a">> >>
      [] src = "context" ->
           << <<"B">>, <<"a", " ", "B">>, <<"a">> >>

StoreRow(src, i) ==
    [table |-> src, id |-> i,
     text |-> RowTexts(src)[((i - 1) % Len(RowTexts(src))) + 1]]

\* the RAGResult of lines 238-247, 253-262, 268-277
ToResult(row, query) ==
    [id |-> <<row.table, row.id>>,
     source |-> row,
     relevance |-> calculateRelevance(query, row.text),
     confidence |-> CASE row.table = "post" -> Rat(8, 10)
                      [] row.table = "trend" -> Rat(9, 10)
                      [] row.table = "context" -> Rat(85, 100)]

\* the loops of lines 237-248, 252-263, 267-278
PushResults(found, rows, query) ==
    found \o [i \in 1..Len(rows) |-> ToResult(rows[i], query)]

\* lines 281-283 without the sort
TruncateOnly(results) == Slice(results, 10)

\* lines 281-283: sort by relevance, descending, and slice(0, 10)
RankByRelevance(results) ==
    Slice(Items(SortDesc([i \in 1..Len(results) |->
                              [key |-> results[i].relevance, item |-> results[i]]])), 10)

\* `if (error) throw error` in place of lines 309-312, 329-332, 344-347
SearchErrorThrows == [raised |-> TRUE, rows |-> << >>]

\* lines 309-312, 329-332, 344-347: the error is logged and [] returned
SearchErrorReturn == [raised |-> FALSE, rows |-> << >>]

\* what fetchHuggingFace can resolve to: the generated texts
HfResponses ==
    {[i \in 1..k |-> [generated_text |-> "text"]] : k \in 1..MaxGenerated}

\* lines 431-436: the response is returned as it is
generateInsights(query, results, response) == response

\* the RAGQuery of lines 215-225
QueryReturn(query, enhancedResults) ==
    [state |-> "returned",
     value |-> << [query |-> query,
                   results |-> enhancedResults,
                   metadata |-> [totalResults |-> Len(enhancedResults),
                                 filters |-> "searchFilters"]] >>]

\* a catch in query that returns what retrieval found instead of rethrowing
QueryCatchReturnsPartial(query, ranked) == QueryReturn(query, ranked)

\* the catch of lines 226-229: the error is logged and rethrown
QueryCatch(query, ranked) == [state |-> "raised", value |-> << >>]

\* a catch in saveQuery that rethrows
SaveCatchRethrows == [state |-> "raised"]

\* the catch of lines 453-455: the error is logged
SaveCatch == [state |-> "returned"]

\* lines 450-452: the error is logged
SaveErrorLogged == [state |-> "returned"]

\* what handleSearch falls back to at line 159
MockResults == << [id |-> "1"], [id |-> "2"], [id |-> "3"] >>

NoQueryResult == [state |-> "none", value |-> << >>]

\* query has ended as r did: handleSearch lines 150-155 or its catch, 156-159
AfterQuery(r) ==
    /\ qResult' = r
    /\ IF r.state = "returned"
       THEN /\ uiQuery' = r.value
            /\ uiResults' = r.value[1].results
            /\ qPc' = "saving"
       ELSE /\ uiResults' = MockResults
            /\ qPc' = "done"
            /\ UNCHANGED uiQuery

\* a sub-query has ended as r did: retrieveContent goes on to its next await
\* or returns and query awaits generateInsights (line 211); an error thrown
\* is caught by query
AfterSearch(src, r) ==
    IF r.raised
    THEN /\ AfterQuery(QueryCatch(rQuery, << >>))
         /\ UNCHANGED <<qFound, qRanked>>
    ELSE /\ qFound' = PushResults(qFound, r.rows, rQuery)
         /\ IF src = "context"
            THEN /\ qRanked' = << RankByRelevance(PushResults(qFound, r.rows, rQuery)) >>
                 /\ qPc' = "insights"
            ELSE /\ qPc' = (IF src = "post" THEN "trend" ELSE "context")
                 /\ UNCHANGED qRanked
         /\ UNCHANGED <<qResult, uiQuery, uiResults>>

\* handleSearch is called (lines 119-150), query calls retrieveContent, which
\* awaits searchPosts
Search ==
    /\ qPc = "idle"
    /\ ~IsBlank(rQuery)
    /\ qPc' = "post"
    /\ UNCHANGED <<collectVars, vArgs, vScore, store,
                   now, pc, tw, posts, heap, groups, cur,
                   pending, trends, result, analysed, fetched, inserted,
                   sText, sLex, sOut, rQuery, rContent, rRel, qEnded, qRows, qFound,
                   qRanked, qResult, qSave, uiQuery, uiResults>>

\* the store answers sub-query src with its first n rows
SearchOk(src, n) ==
    /\ qPc = src
    /\ qEnded' = [qEnded EXCEPT ![src] = "ok"]
    /\ qRows' = [qRows EXCEPT ![src] = [i \in 1..n |-> StoreRow(src, i)]]
    /\ AfterSearch(src, [raised |-> FALSE, rows |-> [i \in 1..n |-> StoreRow(src, i)]])
    /\ UNCHANGED <<collectVars, vArgs, vScore, store,
                   now, pc, tw, posts, heap, groups, cur,
                   pending, trends, result, analysed, fetched, inserted,
                   sText, sLex, sOut, rQuery, rContent, rRel, qSave>>

\* the store answers sub-query src with { error }
SearchError(src) ==
    /\ qPc = src
    /\ qEnded' = [qEnded EXCEPT ![src] = "error"]
    /\ AfterSearch(src, SearchErrorReturn)
    /\ UNCHANGED <<collectVars, vArgs, vScore, store,
                   now, pc, tw, posts, heap, groups, cur,
                   pending, trends, result, analysed, fetched, inserted,
                   sText, sLex, sOut, rQuery, rContent, rRel, qRows, qSave>>

\* fetchHuggingFace resolves: query returns its RAGQuery (lines 213-225)
InsightsOk(response) ==
    /\ qPc = "insights"
    /\ qEnded' = [qEnded EXCEPT !.insights = "ok"]
    /\ AfterQuery(QueryReturn(rQuery, generateInsights(rQuery, qRanked[1], response)))
    /\ UNCHANGED <<collectVars, vArgs, vScore, store,
                   now, pc, tw, posts, heap, groups, cur,
                   pending, trends, result, analysed, fetched, inserted,
                   sText, sLex, sOut, rQuery, rContent, rRel, qRows, qFound, qRanked,
                   qSave>>

\* fetchHuggingFace throws (its fetch rejects, or the proxy answers not ok)
InsightsThrow ==
    /\ qPc = "insights"
    /\ qEnded' = [qEnded EXCEPT !.insights = "throws"]
    /\ AfterQuery(QueryCatch(rQuery, qRanked[1]))
    /\ UNCHANGED <<collectVars, vArgs, vScore, store,
                   now, pc, tw, posts, heap, groups, cur,
                   pending, trends, result, analysed, fetched, inserted,
                   sText, sLex, sOut, rQuery, rContent, rRel, qRows, qFound, qRanked,
                   qSave>>

\* saveQuery has ended as r did: handleSearch lines 155-162
AfterSave(how, r) ==
    /\ qEnded' = [qEnded EXCEPT !.save = how]
    /\ qSave' = r
    /\ qPc' = "done"
    /\ uiResults' = (IF r.state = "raised" THEN MockResults ELSE uiResults)
    /\ UNCHANGED <<collectVars, vArgs, vScore, store,
                   now, pc, tw, posts, heap, groups, cur,
                   pending, trends, result, analysed, fetched, inserted,
                   sText, sLex, sOut, rQuery, rContent, rRel, qRows, qFound, qRanked,
                   qResult, uiQuery>>

\* the insert resolves without error
SaveOk ==
    /\ qPc = "saving"
    /\ AfterSave("ok", [state |-> "returned"])

\* the insert resolves with { error }
SaveError ==
    /\ qPc = "saving"
    /\ AfterSave("error", SaveErrorLogged)

\* the awaited insert rejects
SaveThrows ==
    /\ qPc = "saving"
    /\ AfterSave("throws", SaveCatch)

(***************************************************************************)
(* DataCollectionService (services/data-collection.ts): processPosts on a  *)
(* batch of raw tweets.  A raw post is null or an object; its text is a    *)
(* sequence of words, NotAString for a value that is no string, or absent. *)
(* The id of a raw post is its position in the batch.                      *)
(***************************************************************************)
RawKinds == {"tweet", "tagged", "bare", "quiet", "spam", "null", "number"}

RawTable ==
    [k \in RawKinds |->
        CASE k = "tweet" ->
               [isNull |-> FALSE, text |-> <<"Amazing", "the">>, like_count |-> 30,
                retweet_count |-> 5, reply_count |-> 15, author_id |-> "alice"]
          [] k = "tagged" ->
               [isNull |-> FALSE, text |-> <<"sad", "#AI", "@un">>, like_count |-> 2000,
                retweet_count |-> 100, reply_count |-> 400, author_id |-> "carol"]
          [] k = "bare" ->
               [isNull |-> FALSE, text |-> << >>, like_count |-> 10,
                retweet_count |-> 0, reply_count |-> 0, author_id |-> ""]
          [] k = "quiet" ->
               [isNull |-> FALSE, text |-> <<"the">>, like_count |-> 9,
                retweet_count |-> 0, reply_count |-> 0, author_id |-> "bob"]
          [] k = "spam" ->
               [isNull |-> FALSE, text |-> <<"hate">>, like_count |-> 50,
                retweet_count |-> 0, reply_count |-> 0, author_id |-> "bob"]
          [] k = "null" ->
               [isNull |-> TRUE, text |-> << >>, like_count |-> 0,
                retweet_count |-> 0, reply_count |-> 0, author_id |-> ""]
          [] OTHER ->
               [isNull |-> FALSE, text |-> NotAString, like_count |-> 700,
                retweet_count |-> 0, reply_count |-> 0, author_id |-> "dave"]]

\* the config the service was constructed with
Config ==
    [filters |-> [minEngagement |-> 10, languages |-> <<"en">>,
                  excludeKeywords |-> <<"hate">>]]

\* line 254 reads rawPost.text, which throws on null
ContentThrows(rawPost) == rawPost.isNull

\* line 254: rawPost.text || ''
extractContent(rawPost) == rawPost.text

\* lines 267-271
extractEngagement(rawPost) ==
    [likes |-> rawPost.like_count, shares |-> rawPost.retweet_count,
     comments |-> rawPost.reply_count]

\* lines 310, 316 and 322 call content.match, which throws on a value that is
\* no string
MetadataThrows(content) == content = NotAString

\* lines 294-305: the words of content that the three patterns match
extractMetadata(content) ==
    [hashtags |-> SelectSeq(content, LAMBDA w : w \in {"#AI", "#ai", "#Viral", "#fyp"}),
     mentions |-> SelectSeq(content, LAMBDA w : w \in {"@un", "@nasa", "@x"}),
     urls     |-> SelectSeq(content, LAMBDA w : w \in {"https://t.co/x"}),
     language |-> "en"]

\* line 335: rawPost.author_id || 'unknown'
extractAuthor(rawPost) == IF rawPost.author_id = "" THEN "unknown" ELSE rawPost.author_id

\* the ways sentiment.analyze is taken to end on the content of a raw post:
\* it throws, or scores each word 2
BatchLexOutcomes(content) ==
    {lex \in LexOutcomes(content) : lex.threw \/ lex.score = 2 * Len(content)}

\* the catch of lines 245-248
ProcessPostCatch == [state |-> "returned", post |-> << >>]

\* processPost(rawPost, 'twitter') for the raw post at position id, the
\* scorer ending as lex did: << >> is null
processPost(rawPost, id, lex) ==
    IF ContentThrows(rawPost) THEN ProcessPostCatch
    ELSE IF MetadataThrows(extractContent(rawPost)) THEN ProcessPostCatch
    ELSE IF analyzeSentiment(extractContent(rawPost), lex).state = "raised"
    THEN ProcessPostCatch
    ELSE [state |-> "returned",
          post  |-> << [id |-> id,
                        platform |-> "twitter",
                        content |-> extractContent(rawPost),
                        author |-> extractAuthor(rawPost),
                        engagement |-> extractEngagement(rawPost),
                        metadata |-> extractMetadata(extractContent(rawPost)),
                        sentiment |-> analyzeSentiment(extractContent(rawPost), lex).value[1],
                        viralityScore |->
                            calculateViralityScore(
                                extractEngagement(rawPost),
                                analyzeSentiment(extractContent(rawPost), lex).value[1],
                                extractMetadata(extractContent(rawPost)))] >>]

\* lines 384-407
passesFilters(post) ==
    /\ ~(post.engagement.likes + post.engagement.shares + post.engagement.comments
            < Config.filters.minEngagement)
    /\ ~(Len(Config.filters.languages) > 0
           /\ \A i \in 1..Len(Config.filters.languages) :
                 Config.filters.languages[i] # post.metadata.language)
    /\ ~\E k \in 1..Len(Config.filters.excludeKeywords) :
           \E i \in 1..Len(post.content) :
               Lower(post.content[i]) = Lower(Config.filters.excludeKeywords[k])

\* the loop of lines 203-212 left at the first raw post that is not kept
StopWhenSkipped(kept, i, n) == IF kept THEN i + 1 ELSE n + 1

\* line 203: the loop goes on with the raw post after i, kept or not
NextRawPost(kept, i, n) == i + 1

\* processPosts(bRaw, 'twitter') is called: lines 201-205, up to the await of
\* the first processPost, or to the return when there is no raw post
ProcessPosts ==
    /\ bNext = 0
    /\ bResult.state = "none"
    /\ IF bRaw = << >>
       THEN bNext' = 1 /\ bResult' = [state |-> "returned", value |-> << >>]
       ELSE bNext' = 1 /\ UNCHANGED bResult
    /\ UNCHANGED <<vArgs, vScore, store, now, pc, tw, posts, heap, groups, cur, pending,
                   trends, result, analysed, fetched, inserted, sText, sLex, sOut, ragVars,
                   fPost, fOut, bRaw, bOut, isRunning, loops, started>>

\* the awaited processPost of raw post bNext resolves or rejects: lines
\* 206-212, then the next processPost is awaited or line 214 returns
PostProcessed ==
    /\ bNext \in 1..Len(bRaw)
    /\ bResult.state = "none"
    /\ \E lex \in BatchLexOutcomes(IF RawTable[bRaw[bNext]].text = NotAString THEN << >>
                                    ELSE RawTable[bRaw[bNext]].text) :
          \E r \in {processPost(RawTable[bRaw[bNext]], bNext, lex)} :
              \E kept \in {r.state = "returned" /\ r.post # << >> /\ passesFilters(r.post[1])} :
                  \E out \in {IF kept THEN Append(bOut, r.post[1]) ELSE bOut} :
                      /\ bOut' = out
                      /\ bNext' = NextRawPost(kept, bNext, Len(bRaw))
                      /\ bResult' = IF NextRawPost(kept, bNext, Len(bRaw)) > Len(bRaw)
                                     THEN [state |-> "returned", value |-> out]
                                     ELSE bResult
    /\ UNCHANGED <<vArgs, vScore, store, now, pc, tw, posts, heap, groups, cur, pending,
                   trends, result, analysed, fetched, inserted, sText, sLex, sOut, ragVars,
                   fPost, fOut, bRaw, isRunning, loops, started>>

(***************************************************************************)
(* DataCollectionService: startCollection, stopCollection and the loops of *)
(* collectFromPlatform.  loops holds one record per call of                *)
(* collectFromPlatform: its platform, the start that made it (gen) and the *)
(* await it is suspended at (at).                                          *)
(* started holds how each call of startCollection ended.                   *)
(***************************************************************************)
\* config.platforms
Platforms == <<"twitter", "reddit">>

\* the number of calls of startCollection
MaxStarts == 2

nonLoopVars ==
    <<vArgs, vScore, store, now, pc, tw, posts, heap, groups, cur, pending, trends, result,
      analysed, fetched, inserted, sText, sLex, sOut, ragVars, fPost, fOut, bRaw, bNext,
      bOut, bResult>>

\* the loop never looking at the flag
LoopNeverChecks(running) == TRUE

\* line 48: while (this.isRunning)
LoopContinues(running) == running

\* lines 37-39: collectFromPlatform is called for each platform and runs to
\* its first await, inside fetchPostsFromPlatform; a loop whose first check
\* of line 48 fails returns at once
SpawnLoops(gen, running) ==
    [i \in 1..Len(Platforms) |->
        [platform |-> Platforms[i], gen |-> gen,
         at |-> IF LoopContinues(running) THEN "fetch" ELSE "ended"]]

\* startCollection while not running: lines 33-39
StartCollection ==
    /\ Len(started) < MaxStarts
    /\ ~isRunning
    /\ isRunning' = TRUE
    /\ loops' = loops \o SpawnLoops(Len(started) + 1, TRUE)
    /\ started' = Append(started, "started")
    /\ UNCHANGED nonLoopVars

\* startCollection while running: lines 29-31
StartRejected ==
    /\ Len(started) < MaxStarts
    /\ isRunning
    /\ started' = Append(started, "Data collection is already running")
    /\ UNCHANGED <<nonLoopVars, isRunning, loops>>

\* stopCollection: line 43
StopCollection ==
    /\ isRunning
    /\ isRunning' = FALSE
    /\ UNCHANGED <<nonLoopVars, loops, started>>

\* stopCollection while not running: line 43 again
StopAgain ==
    /\ ~isRunning
    /\ isRunning' = FALSE
    /\ UNCHANGED <<nonLoopVars, loops, started>>

MoveLoop(i, at) ==
    /\ loops' = [loops EXCEPT ![i] = [@ EXCEPT !.at = at]]
    /\ UNCHANGED <<nonLoopVars, isRunning, started>>

\* line 50: the awaited fetch resolves; processPosts is awaited
CollectFetched(i) ==
    /\ i \in 1..Len(loops)
    /\ loops[i].at = "fetch"
    /\ MoveLoop(i, "process")

\* line 50: the awaited fetch rejects; lines 58-60 await the retry delay
CollectFetchFailed(i) ==
    /\ i \in 1..Len(loops)
    /\ loops[i].at = "fetch"
    /\ MoveLoop(i, "retry")

\* line 51: processPosts resolves (it does not reject); storePosts is awaited
CollectProcessed(i) ==
    /\ i \in 1..Len(loops)
    /\ loops[i].at = "process"
    /\ MoveLoop(i, "store")

\* line 54: storePosts resolves; line 57 awaits the delay of the interval
CollectStored(i) ==
    /\ i \in 1..Len(loops)
    /\ loops[i].at = "store"
    /\ MoveLoop(i, "delay")

\* line 54: storePosts rejects (the import of line 411); lines 58-60
CollectStoreFailed(i) ==
    /\ i \in 1..Len(loops)
    /\ loops[i].at = "store"
    /\ MoveLoop(i, "retry")

\* the timer of line 57 or of line 60 fires, line 48 finds the flag set and
\* line 50 awaits the next fetch
CycleAgain(i) ==
    /\ i \in 1..Len(loops)
    /\ loops[i].at \in {"delay", "retry"}
    /\ LoopContinues(isRunning)
    /\ MoveLoop(i, "fetch")

\* the timer of line 57 or of line 60 fires, line 48 finds the flag clear
\* and collectFromPlatform returns
LoopEnded(i) ==
    /\ i \in 1..Len(loops)
    /\ loops[i].at \in {"delay", "retry"}
    /\ ~LoopContinues(isRunning)
    /\ MoveLoop(i, "ended")

\* what settles for loop i
LoopStep(i) ==
    \/ CollectFetched(i)
    \/ CollectFetchFailed(i)
    \/ CollectProcessed(i)
    \/ CollectStored(i)
    \/ CollectStoreFailed(i)
    \/ CycleAgain(i)
    \/ LoopEnded(i)

(***************************************************************************)
(* Specifications.                                                         *)
(***************************************************************************)
\* nothing but the trend aggregator or the virality scorer is in use
\* the search component before a search
SearchIdle ==
    /\ qPc = "idle"
    /\ qEnded = [post |-> "none", trend |-> "none", context |-> "none",
                 insights |-> "none", save |-> "none"]
    /\ qRows = [post |-> << >>, trend |-> << >>, context |-> << >>]
    /\ qFound = << >>
    /\ qRanked = << >>
    /\ qResult = NoQueryResult
    /\ qSave = [state |-> "none"]
    /\ uiQuery = << >>
    /\ uiResults = << >>

RagIdle == rQuery = << >> /\ rContent = << >> /\ rRel = << >> /\ SearchIdle

\* no post is held, no batch is processed and the collection is not running
CollectIdle ==
    /\ fPost = << >> /\ fOut = << >>
    /\ bRaw = << >> /\ bNext = 0 /\ bOut = << >> /\ bResult = [state |-> "none"]
    /\ isRunning = FALSE /\ loops = << >> /\ started = << >>

OthersIdle == sText = << >> /\ sLex = << >> /\ sOut = << >> /\ RagIdle /\ CollectIdle

NoArgs ==
    [engagement |-> [likes |-> 0, shares |-> 0, comments |-> 0],
     sentiment |-> [label |-> "neutral"],
     metadata |-> [hashtags |-> << >>, mentions |-> << >>, urls |-> << >>,
                   language |-> "en"]]

Tables ==
    {[k \in Kinds |-> IF k = 2 THEN b ELSE IF k \in CoreKinds THEN e[k] ELSE 0] :
        b \in 0..MaxBody, e \in [CoreKinds -> 0..MaxExtra]}

InitTrends(tables, windows) ==
    /\ store \in tables
    /\ now = Now0
    /\ pc = [inv \in Invocations |-> "idle"]
    /\ tw \in {[inv \in Invocations |-> w] : w \in windows}
    /\ posts = [inv \in Invocations |-> << >>]
    /\ heap = [inv \in Invocations |-> << >>]
    /\ groups = [inv \in Invocations |-> << >>]
    /\ cur = [inv \in Invocations |-> 0]
    /\ pending = [inv \in Invocations |-> << >>]
    /\ trends = [inv \in Invocations |-> << >>]
    /\ result = [inv \in Invocations |-> NoResult]
    /\ analysed = [inv \in Invocations |-> << >>]
    /\ fetched = [inv \in Invocations |->
                     [outcome |-> "none", start |-> 0, table |-> [k \in Kinds |-> 0]]]
    /\ inserted = 0

\* one identifyTrends call against a table that does not change
Init == vArgs = NoArgs /\ vScore = << >> /\ InitTrends(Tables, {"day"}) /\ OthersIdle

Next ==
    \/ \E timeWindow \in TimeWindows : Call(1, timeWindow)
    \/ FetchOk(1)
    \/ FetchError(1)
    \/ FetchThrows(1)
    \/ Resume(1)

Spec == Init /\ [][Next]_vars

\* Two identifyTrends calls with the same timeWindow argument, the clock and
\* storePosts running alongside.  The clock is read at a call only (line 37)
\* and the table at a query only, so time passes and rows are inserted here
\* for as long as a call, respectively a query, is still to come.
SharedTables ==
    {[k \in Kinds |-> IF k = 2 THEN MaxBody - 1 ELSE IF k \in {1, 3} THEN 1 ELSE 0]}

\* the kinds of rows storePosts inserts meanwhile
NewKinds == {4}

InitC ==
    vArgs = NoArgs /\ vScore = << >> /\ InitTrends(SharedTables, TimeWindows) /\ OthersIdle

NextC ==
    \/ \E inv \in Invocations : Call(inv, tw[inv])
    \/ \E inv \in Invocations : FetchOk(inv)
    \/ \E inv \in Invocations : FetchError(inv)
    \/ \E inv \in Invocations : FetchThrows(inv)
    \/ \E inv \in Invocations : Resume(inv)
    \/ \E k \in NewKinds :
          (\E inv \in Invocations : pc[inv] \in {"idle", "fetching"}) /\ StorePost(k)
    \/ (\E inv \in Invocations : pc[inv] = "idle") /\ Tick

SpecC == InitC /\ [][NextC]_vars

\* calculateViralityScore on engagement counts below, at and far above the
\* saturation points, every label, and metadata of every size up to the bounds
Huge == 10^6

MaxTags == 4

MaxMentions == 5

ScoreInputs ==
    {[engagement |-> [likes |-> l, shares |-> s, comments |-> c],
      sentiment |-> [label |-> lab],
      metadata |-> [hashtags |-> [i \in 1..h |-> "#AI"],
                    mentions |-> [i \in 1..m |-> Str("@un")],
                    urls |-> [i \in 1..u |-> "https://t.co/x"],
                    language |-> lang]] :
        l \in {-Huge, 0, 4000, Huge}, s \in {-Huge, 0, 2000, Huge},
        c \in {0, 6000, Huge}, lab \in Labels, h \in 0..MaxTags, m \in 0..MaxMentions,
        u \in 0..1, lang \in {"en", "es"}}

InitV ==
    /\ vArgs \in ScoreInputs /\ vScore = << >>
    /\ InitTrends({[k \in Kinds |-> 0]}, {"day"}) /\ OthersIdle

NextV == Score

SpecV == InitV /\ [][NextV]_vars

\* analyzeSentiment called once on a text
InitS ==
    /\ vArgs = NoArgs /\ vScore = << >>
    /\ InitTrends({[k \in Kinds |-> 0]}, {"day"})
    /\ sText \in Texts /\ sLex = << >> /\ sOut = << >>
    /\ RagIdle /\ CollectIdle

NextS == AnalyzeSentiment

SpecS == InitS /\ [][NextS]_vars

\* tables of posts that carry labels analyzeSentiment returns
LabelledTables ==
    {[k \in Kinds |-> IF k = 2 THEN b ELSE IF k = 3 THEN c ELSE 0] :
        b \in 5..6, c \in 3..4}

\* texts around the label thresholds
ThresholdTexts == {Repeat("hate", n) : n \in 0..3}

\* the scorer labels a text while identifyTrends runs on labelled posts
InitL ==
    /\ vArgs = NoArgs /\ vScore = << >>
    /\ InitTrends(LabelledTables, {"day"})
    /\ sText \in ThresholdTexts /\ sLex = << >> /\ sOut = << >>
    /\ RagIdle /\ CollectIdle

NextL == AnalyzeSentiment \/ Next

SpecL == InitL /\ [][NextL]_vars

\* tables of the posts under #fyp: up to MaxFyp of the first author, and one
\* or none of each other author
MaxFyp == 8

GroupTables ==
    {[k \in Kinds |-> IF k = 6 THEN n ELSE IF k \in CoreKinds THEN 0 ELSE e[k]] :
        n \in 0..MaxFyp, e \in [7..11 -> 0..1]}

\* one identifyTrends call on a table of such posts
InitG == vArgs = NoArgs /\ vScore = << >> /\ InitTrends(GroupTables, {"day"}) /\ OthersIdle

SpecG == InitG /\ [][Next]_vars

\* identifyViralityFactors on posts at and next to each threshold: total
\* engagement 1000 and 1001, share ratio 0.3 and 0.4, scores 0.5 and -0.3,
\* every label, none to four trending hashtags and none to MaxMentions mentions
FactorInputs ==
    {[engagement |-> [likes |-> l, shares |-> s, comments |-> c],
      sentiment |-> [label |-> lab, score |-> sc],
      metadata |-> [hashtags |-> tags,
                    mentions |-> [i \in 1..m |-> Str("@un")],
                    urls |-> << >>, language |-> "en"],
      content |-> text] :
        l \in {0, 10, 1000}, s \in {0, 3, 4, 400}, c \in {0, 1}, lab \in Labels,
        sc \in {Rat(-1, 1), Rat(-31, 100), Rat(-3, 10), Zero, Rat(1, 2), Rat(51, 100), One},
        tags \in {<< >>, <<"#AI">>, <<"#Viral">>, <<"#Viral", "#fyp", "#trend", "#trending">>},
        m \in 0..MaxMentions,
        text \in {<< >>, <<"rain">>, <<"Breaking", "news">>}}

InitF ==
    /\ vArgs = NoArgs /\ vScore = << >>
    /\ InitTrends({[k \in Kinds |-> 0]}, {"day"})
    /\ sText = << >> /\ sLex = << >> /\ sOut = << >> /\ RagIdle
    /\ fPost \in {<<x>> : x \in FactorInputs} /\ fOut = << >>
    /\ bRaw = << >> /\ bNext = 0 /\ bOut = << >> /\ bResult = [state |-> "none"]
    /\ isRunning = FALSE /\ loops = << >> /\ started = << >>

NextF == Factors

SpecF == InitF /\ [][NextF]_vars

\* the batches of up to MaxBatch raw posts
MaxBatch == 3

Batches == UNION {[1..n -> RawKinds] : n \in 0..MaxBatch}

\* processPosts called once on a batch
InitP ==
    /\ vArgs = NoArgs /\ vScore = << >>
    /\ InitTrends({[k \in Kinds |-> 0]}, {"day"})
    /\ sText = << >> /\ sLex = << >> /\ sOut = << >> /\ RagIdle
    /\ fPost = << >> /\ fOut = << >>
    /\ bRaw \in Batches /\ bNext = 0 /\ bOut = << >> /\ bResult = [state |-> "none"]
    /\ isRunning = FALSE /\ loops = << >> /\ started = << >>

NextP == ProcessPosts \/ PostProcessed

SpecP == InitP /\ [][NextP]_vars

\* a DataCollectionService after construction: line 22
InitK ==
    /\ vArgs = NoArgs /\ vScore = << >>
    /\ InitTrends({[k \in Kinds |-> 0]}, {"day"})
    /\ sText = << >> /\ sLex = << >> /\ sOut = << >> /\ RagIdle
    /\ CollectIdle

MaxLoops == MaxStarts * Len(Platforms)

NextK ==
    \/ StartCollection
    \/ StartRejected
    \/ StopCollection
    \/ StopAgain
    \/ \E i \in 1..MaxLoops : CollectFetched(i)
    \/ \E i \in 1..MaxLoops : CollectFetchFailed(i)
    \/ \E i \in 1..MaxLoops : CollectProcessed(i)
    \/ \E i \in 1..MaxLoops : CollectStored(i)
    \/ \E i \in 1..MaxLoops : CollectStoreFailed(i)
    \/ \E i \in 1..MaxLoops : CycleAgain(i)
    \/ \E i \in 1..MaxLoops : LoopEnded(i)

SpecK == InitK /\ [][NextK]_vars

\* every awaited fetch, processPosts, storePosts and timer of a loop settles
SpecKFair == SpecK /\ \A i \in 1..MaxLoops : WF_vars(LoopStep(i))

\* calculateRelevance called once on a query and a candidate text
InitR ==
    /\ vArgs = NoArgs /\ vScore = << >>
    /\ InitTrends({[k \in Kinds |-> 0]}, {"day"})
    /\ sText = << >> /\ sLex = << >> /\ sOut = << >>
    /\ rQuery \in Strings /\ rContent \in Strings /\ rRel = << >>
    /\ SearchIdle /\ CollectIdle

NextR == Relevance

SpecR == InitR /\ [][NextR]_vars

\* the texts typed into the search box
QueryTexts == {<<"a">>, <<"a", " ", "B">>, <<" ", "a">>, <<" ">>}

\* one search from the component
InitQ ==
    /\ vArgs = NoArgs /\ vScore = << >>
    /\ InitTrends({[k \in Kinds |-> 0]}, {"day"})
    /\ sText = << >> /\ sLex = << >> /\ sOut = << >>
    /\ rQuery \in QueryTexts /\ rContent = << >> /\ rRel = << >>
    /\ SearchIdle /\ CollectIdle

NextQ ==
    \/ Search
    \/ \E i \in 1..Len(Sources) : \E n \in 0..MaxRows(Sources[i]) : SearchOk(Sources[i], n)
    \/ \E i \in 1..Len(Sources) : SearchError(Sources[i])
    \/ \E response \in HfResponses : InsightsOk(response)
    \/ InsightsThrow
    \/ SaveOk
    \/ SaveError
    \/ SaveThrows

SpecQ == InitQ /\ [][NextQ]_vars

(***************************************************************************)
(* Properties.  An invocation has returned from a successful query when    *)
(* Done holds of it; OutTopics are the topics of the Trends it returned.   *)
(***************************************************************************)
Done(inv) == pc[inv] = "done" /\ fetched[inv].outcome = "ok"

Range(s) == {s[i] : i \in 1..Len(s)}

OutTopics(inv) == {result[inv].trends[i].topic : i \in 1..Len(result[inv].trends)}

NoDateError(ps, members) == \A i \in 1..Len(members) : PostOf(ps[members[i]]).tsIsDate

MeetsBounds(m) ==
    /\ m.mentions >= 10
    /\ RatLe(Int2Rat(100), m.velocity)
    /\ RatLe(Int2Rat(2), m.growthRate)

\* C1: whatever the engagement counts (zero, negative, very large), the
\* sentiment label and the metadata, the score calculateViralityScore returns
\* is at least 0 and at most 1.
ScoreWithinUnitInterval ==
    vScore # << >> => RatLe(Zero, vScore[1]) /\ RatLe(vScore[1], One)

\* a score was computed from negative shares and came out as the lower bound
ScoredNegativeShares ==
    /\ vScore # << >>
    /\ vArgs.engagement.shares = -Huge
    /\ vArgs.engagement.likes = 0
    /\ vScore[1] = Zero

\* C3: when identifyTrends has returned, no topic whose group holds fewer
\* than 5 of the fetched posts was analysed or is in the output, and every
\* topic whose group holds 5 or more was analysed; what is in the output was
\* analysed.
SmallGroupsNeverAnalysed ==
    Done(1) =>
        /\ \A g \in 1..Len(groups[1]) :
              IF Len(groups[1][g].members) < 5
              THEN /\ groups[1][g].topic \notin Range(analysed[1])
                   /\ groups[1][g].topic \notin OutTopics(1)
              ELSE groups[1][g].topic \in Range(analysed[1])
        /\ OutTopics(1) \subseteq Range(analysed[1])

\* a run returned with a group of exactly 4 posts left out and a group of
\* exactly 5 posts analysed
GroupsOfFourAndFive ==
    /\ Done(1)
    /\ \E g \in 1..Len(groups[1]) : Len(groups[1][g].members) = 4
    /\ \E g \in 1..Len(groups[1]) :
          /\ Len(groups[1][g].members) = 5
          /\ groups[1][g].topic \in Range(analysed[1])

\* C4: when identifyTrends has returned, a topic whose group holds at least 5
\* posts and whose analysis met no error is in the output if and only if its
\* metrics have mentions >= 10, velocity >= 100 and growthRate >= 2; and
\* every returned Trend has metrics within the three bounds.
ReturnedIffSignificant ==
    Done(1) =>
        /\ \A g \in 1..Len(groups[1]) :
              (Len(groups[1][g].members) >= 5 /\ NoDateError(posts[1], groups[1][g].members))
              => (groups[1][g].topic \in OutTopics(1)
                    <=> MeetsBounds(calculateTrendMetrics(posts[1], groups[1][g].members)))
        /\ \A i \in 1..Len(result[1].trends) : MeetsBounds(result[1].trends[i].metrics)

\* a run returned a Trend and rejected a group of 10 posts spread over 10
\* hours, whose velocity is at least 100 and whose growthRate is 1
TenPostsOverTenHoursRejected ==
    /\ Done(1)
    /\ result[1].trends # << >>
    /\ \E g \in 1..Len(groups[1]) :
          LET m == calculateTrendMetrics(posts[1], groups[1][g].members)
          IN  /\ NoDateError(posts[1], groups[1][g].members)
              /\ m.mentions = 10
              /\ m.growthRate = One
              /\ RatLe(Int2Rat(100), m.velocity)
              /\ groups[1][g].topic \notin OutTopics(1)

\* C5: in the list identifyTrends returns, each Trend's velocity is at least
\* the velocity of the Trend after it.
OutputSortedByVelocity ==
    \A i \in 1..(Len(result[1].trends) - 1) :
        RatLe(result[1].trends[i + 1].metrics.velocity, result[1].trends[i].metrics.velocity)

\* a run returned two Trends that the loop had collected in the order of
\* increasing velocity
SlowerTrendCollectedFirst ==
    /\ Done(1)
    /\ Len(result[1].trends) >= 2
    /\ Len(trends[1]) >= 2
    /\ RatLt(trends[1][1].metrics.velocity, trends[1][2].metrics.velocity)

\* C6: in the sentiment distribution of every analysed group, whatever the
\* labels of its posts, the positive, negative and neutral fractions sum to 1.
SentimentFractionsSumToOne ==
    /\ pending[1] # << >> =>
          RatAdd(RatAdd(pending[1][1].sentiment.positive, pending[1][1].sentiment.negative),
                 pending[1][1].sentiment.neutral) = One
    /\ \A i \in 1..Len(result[1].trends) :
          RatAdd(RatAdd(result[1].trends[i].sentiment.positive,
                        result[1].trends[i].sentiment.negative),
                 result[1].trends[i].sentiment.neutral) = One

\* a group holding a post labelled mixed next to posts of other labels has
\* been analysed
MixedPostAnalysed ==
    /\ pc[1] = "awaiting"
    /\ pending[1] # << >>
    /\ \E i \in 1..Len(groups[1][cur[1]].members) :
          PostOf(posts[1][groups[1][cur[1]].members[i]]).sentiment.label = "mixed"
    /\ \E i \in 1..Len(groups[1][cur[1]].members) :
          PostOf(posts[1][groups[1][cur[1]].members[i]]).sentiment.label = "positive"

\* C7: the overall label of every analysed group's sentiment distribution is
\* a label, among positive, negative and neutral, that the greatest number of
\* the group's posts was counted under.
OverallIsMajorityLabel ==
    pending[1] # << >> =>
        LET s == pending[1][1].sentiment
            share(l) == IF l = "positive" THEN s.positive
                        ELSE IF l = "negative" THEN s.negative
                        ELSE s.neutral
        IN  \A l \in {"positive", "negative", "neutral"} : RatLe(share(l), share(s.overall))

\* a group of ten posts, one counted positive, none negative and nine neutral,
\* was analysed and its overall label is positive
NineNeutralOverallPositive ==
    /\ pending[1] # << >>
    /\ pending[1][1].metrics.mentions = 10
    /\ pending[1][1].sentiment.positive = Rat(1, 10)
    /\ pending[1][1].sentiment.negative = Zero
    /\ pending[1][1].sentiment.neutral = Rat(9, 10)
    /\ pending[1][1].sentiment.overall = "positive"

\* what two invocations given the same fetch return
SameFetchSameResult ==
    (/\ Done(1) /\ Done(2)
     /\ tw[1] = tw[2]
     /\ fetched[1].start = fetched[2].start
     /\ fetched[1].table = fetched[2].table)
    => result[1] = result[2]

\* a step of an invocation leaves the table and the other invocation alone
OthersUntouched ==
    \A inv \in Invocations :
        (pc'[inv] # pc[inv] \/ cur'[inv] # cur[inv]) =>
            /\ store' = store
            /\ \A o \in Invocations \ {inv} :
                  /\ result'[o] = result[o]
                  /\ trends'[o] = trends[o]
                  /\ pending'[o] = pending[o]
                  /\ posts'[o] = posts[o]
                  /\ heap'[o] = heap[o]

FetchFailureReturnsEmpty ==
    (pc[1] = "done" /\ fetched[1].outcome \in {"error", "throws"})
    => (result[1].state = "returned" /\ result[1].trends = << >>)

\* the query answered with an error although the table held ten rows
FetchFailedOnFullTable ==
    /\ pc[1] = "done"
    /\ fetched[1].outcome = "error"
    /\ store[2] >= 10
    /\ result[1].state = "returned"

\* identifyTrends run from the grouping to its return on the groups gs
RECURSIVE RunToReturn(_, _, _, _, _)
RunToReturn(ps, gs, from, h, trs) ==
    LET step == RunLoop(ps, gs, from, h, trs, << >>)
    IN  IF step.pc = "done" THEN step.result
        ELSE RunToReturn(ps, gs, step.cur + 1, step.heap, KeepSignificant(trs, step.pending))

\* C10: when identifyTrends has returned, it has not raised; every topic of
\* 5 or more posts was analysed; a topic whose analysis met an error is not
\* in the output; and the output is the one the run returns on the same posts
\* with the failing groups taken away.
FailingTopicOnlyOmitted ==
    Done(1) =>
        /\ result[1].state = "returned"
        /\ \A g \in 1..Len(groups[1]) :
              Len(groups[1][g].members) >= 5 =>
                  /\ groups[1][g].topic \in Range(analysed[1])
                  /\ ~NoDateError(posts[1], groups[1][g].members)
                        => groups[1][g].topic \notin OutTopics(1)
        /\ result[1] =
              RunToReturn(posts[1],
                          SelectSeq(groups[1], LAMBDA grp : NoDateError(posts[1], grp.members)),
                          1,
                          [i \in 1..Len(posts[1]) |-> PostOf(posts[1][i]).metadata.mentions],
                          << >>)

\* a run returned a Trend of a topic analysed after a topic whose analysis
\* met an error
TrendReturnedAfterFailedTopic ==
    /\ Done(1)
    /\ \E f \in 1..Len(groups[1]) :
          /\ Len(groups[1][f].members) >= 5
          /\ ~NoDateError(posts[1], groups[1][f].members)
          /\ \E g \in (f + 1)..Len(groups[1]) : groups[1][g].topic \in OutTopics(1)

\* C20: the score calculateViralityScore returns is
\* clamp(0.40*E + 0.25*V + 0.20*S + 0.15*C, 0, 1) with
\* E = min(1, (likes+shares+comments)/10000),
\* V = min(1, (shares/max(1,likes))/0.5), S = 0.8 / 0.6 / 0.4 for positive /
\* negative / neutral or mixed, and C = min(1, the hashtag, mention, url and
\* language terms).
ScoreIsClampedWeightedSum ==
    vScore # << >> =>
        LET e == vArgs.engagement
            m == vArgs.metadata
            E == RatMin(One, Rat(e.likes + e.shares + e.comments, 10000))
            V == RatMin(One, Rat(2 * e.shares, IF e.likes >= 1 THEN e.likes ELSE 1))
            S == CASE vArgs.sentiment.label = "positive" -> 8
                   [] vArgs.sentiment.label = "negative" -> 6
                   [] vArgs.sentiment.label \in {"neutral", "mixed"} -> 4
            tags  == IF Len(m.hashtags) > 0
                     THEN (IF 10 * Len(m.hashtags) < 30 THEN 10 * Len(m.hashtags) ELSE 30)
                     ELSE 0
            ments == IF Len(m.mentions) > 0
                     THEN (IF 5 * Len(m.mentions) < 20 THEN 5 * Len(m.mentions) ELSE 20)
                     ELSE 0
            url   == IF m.urls # << >> THEN 10 ELSE 0
            lang  == IF m.language = "en" THEN 10 ELSE 0
            C == RatMin(One, Rat(tags + ments + url + lang, 100))
            sum == RatAdd(RatAdd(RatMul(Rat(40, 100), E), RatMul(Rat(25, 100), V)),
                          RatAdd(Rat(20 * S, 1000), RatMul(Rat(15, 100), C)))
        IN  vScore[1] = (IF RatLe(sum, Zero) THEN Zero
                         ELSE IF RatLe(One, sum) THEN One ELSE sum)

\* a positive English post with 12000 interactions, a share ratio of 0.5,
\* four hashtags, five mentions and a url scored 0.4 + 0.25 + 0.16 + 0.105
ScoredAllFourTerms ==
    /\ vScore = << Rat(915, 1000) >>
    /\ vArgs.engagement = [likes |-> 4000, shares |-> 2000, comments |-> 6000]
    /\ vArgs.sentiment.label = "positive"
    /\ Len(vArgs.metadata.hashtags) = 4
    /\ Len(vArgs.metadata.mentions) = 5
    /\ vArgs.metadata.urls # << >>
    /\ vArgs.metadata.language = "en"

\* the sentiment.analyze call or the emotion analysis raised
SentimentInternalError == sLex[1].threw \/ EmotionsThrow(sText)

\* C17: analyzeSentiment never fails: for every text it returns a Sentiment
\* value, and when the lexical scorer or the emotion analysis raised, that
\* value is the neutral default: score 0, magnitude 0, label neutral, the six
\* emotions 0, confidence 0.5.
SentimentNeverFails ==
    sOut # << >> =>
        /\ sOut[1].state = "returned"
        /\ Len(sOut[1].value) = 1
        /\ DOMAIN sOut[1].value[1] = {"score", "magnitude", "label", "emotions", "confidence"}
        /\ sOut[1].value[1].label \in Labels
        /\ SentimentInternalError =>
              sOut[1].value[1] =
                  [score |-> Int2Rat(0), magnitude |-> 0, label |-> "neutral",
                   emotions |-> [e \in {"joy", "sadness", "anger", "fear", "surprise",
                                        "disgust"} |-> Int2Rat(0)],
                   confidence |-> Rat(1, 2)]

\* the lexical scorer threw on a text of emotion words and a value came back
SentimentScorerThrew ==
    /\ sOut # << >>
    /\ sLex[1].threw
    /\ sText = <<"hate", "hate", "sad">>
    /\ sOut[1].state = "returned"
    /\ sOut[1].value[1].emotions.anger = Zero

\* C18: the label analyzeSentiment returns follows the normalized score
\* s = clamp(raw/10, -1, 1): positive iff s > 0.1, negative iff s < -0.1,
\* neutral otherwise, never mixed; and in the Trends identifyTrends returns
\* for posts so labelled, mixed is the overall sentiment of no Trend and the
\* label of no post listed, so that it can only be the sentiment of a
\* timeline point.
MixedOnlyInTimeline ==
    /\ (sOut # << >> /\ sOut[1].state = "returned") =>
          LET v == sOut[1].value[1]
              r == IF sLex[1].threw THEN 0 ELSE sLex[1].score
              s == IF r > 10 THEN Int2Rat(1) ELSE IF r < -10 THEN Int2Rat(-1) ELSE Rat(r, 10)
          IN  /\ ~SentimentInternalError => v.score = s
              /\ v.label # "mixed"
              /\ v.label = "positive" <=> 10 * v.score.n > v.score.d
              /\ v.label = "negative" <=> 10 * v.score.n < -v.score.d
              /\ v.label = "neutral" <=>
                    (10 * v.score.n <= v.score.d /\ 10 * v.score.n >= -v.score.d)
    /\ Done(1) =>
          \A i \in 1..Len(result[1].trends) :
              LET t == result[1].trends[i]
              IN  /\ t.sentiment.overall # "mixed"
                  /\ \A j \in 1..Len(t.influencers) :
                        \A m \in Range(t.influencers[j].recentPosts) :
                            PostOf(m.kind).sentiment.label # "mixed"

\* a text of raw score 1 was labelled neutral, and a Trend was returned whose
\* timeline has a point of sentiment mixed (six neutral and four negative
\* posts in the hour)
MixedTimelinePoint ==
    /\ sOut # << >>
    /\ ~sLex[1].threw /\ sLex[1].score = 1
    /\ sOut[1].value[1].label = "neutral"
    /\ Done(1)
    /\ \E i \in 1..Len(result[1].trends) :
          \E j \in 1..Len(result[1].trends[i].timeline) :
              /\ result[1].trends[i].timeline[j].sentiment = "mixed"
              /\ result[1].trends[i].timeline[j].mentions = 10

\* C19: the Sentiment analyzeSentiment returns has its score in [-1, 1], its
\* confidence equal to clamp(|score| * 0.8 + 0.2, 0.5, 0.95) and so in
\* [0.5, 0.95], magnitude >= 0 and each of the six emotions in [0, 1]; when
\* the raw lexical score is 0 the confidence is 0.5.
SentimentWithinRanges ==
    (sOut # << >> /\ sOut[1].state = "returned") =>
        LET v == sOut[1].value[1]
            c == RatAdd(RatMul(RatAbs(v.score), Rat(4, 5)), Rat(1, 5))
        IN  /\ RatLe(Int2Rat(-1), v.score) /\ RatLe(v.score, Int2Rat(1))
            /\ v.confidence = (IF RatLe(c, Rat(1, 2)) THEN Rat(1, 2)
                               ELSE IF RatLe(Rat(19, 20), c) THEN Rat(19, 20) ELSE c)
            /\ RatLe(Rat(1, 2), v.confidence) /\ RatLe(v.confidence, Rat(19, 20))
            /\ v.magnitude >= 0
            /\ \A e \in DOMAIN v.emotions :
                  RatLe(Int2Rat(0), v.emotions[e]) /\ RatLe(v.emotions[e], Int2Rat(1))
            /\ (~sLex[1].threw /\ sLex[1].score = 0) => v.confidence = Rat(1, 2)

\* six times "Amazing" and one "hate" with raw score 12: the score is capped
\* at 1, the confidence at 0.95, joy and surprise at 1
SentimentAtTheCaps ==
    /\ sOut # << >>
    /\ sText = <<"Amazing", "Amazing", "Amazing", "Amazing", "Amazing", "Amazing", "hate">>
    /\ ~sLex[1].threw /\ sLex[1].score = 12
    /\ sOut[1].value[1].score = One
    /\ sOut[1].value[1].confidence = Rat(95, 100)
    /\ sOut[1].value[1].emotions.joy = One
    /\ sOut[1].value[1].emotions.anger = Rat(1, 5)

\* the rows the three sub-queries returned, as candidates, in the order
\* retrieveContent merges them
Candidates ==
    [i \in 1..(Len(qRows.post) + Len(qRows.trend) + Len(qRows.context)) |->
        ToResult((qRows.post \o qRows.trend \o qRows.context)[i], rQuery)]

NonIncreasing(rs) ==
    \A i \in 1..(Len(rs) - 1) : RatLe(rs[i + 1].relevance, rs[i].relevance)

\* C11: the RAGQuery a successful query returns has as its results the list
\* retrieveContent returned (at most 10 records, each with one retrieved row
\* as its source, in non-increasing order of relevance), and
\* metadata.totalResults is the length of that list.
QueryCarriesRankedList ==
    qResult.state = "returned" =>
        /\ qResult.value[1].results = qRanked[1]
        /\ qResult.value[1].metadata.totalResults = Len(qRanked[1])
        /\ Len(qResult.value[1].results) <= 10
        /\ NonIncreasing(qResult.value[1].results)
        /\ \A i \in 1..Len(qResult.value[1].results) :
              qResult.value[1].results[i].source
                  \in Range(qRows.post \o qRows.trend \o qRows.context)

\* retrieval ranked ten records and the RAGQuery returned holds the one
\* generated text instead, with totalResults 1
QueryReturnedGeneratedText ==
    /\ qResult.state = "returned"
    /\ Len(qRanked[1]) = 10
    /\ qResult.value[1].results = << [generated_text |-> "text"] >>
    /\ qResult.value[1].metadata.totalResults = 1

\* C12: what retrieveContent returns are min(10, n) of the n candidates merged
\* from the three sources, in non-increasing order of relevance; no candidate
\* left out has a greater relevance than one included; a candidate of
\* relevance > 0 stands before every candidate of relevance 0, and is included
\* when fewer than 10 other candidates have a relevance at least as high.
RetrievalRanksTopTen ==
    qRanked # << >> =>
        LET out   == qRanked[1]
            cands == Candidates
            n     == Len(cands)
            left  == {i \in 1..n : \A k \in 1..Len(out) : out[k] # cands[i]}
        IN  /\ Len(out) = (IF n < 10 THEN n ELSE 10)
            /\ NonIncreasing(out)
            /\ \A k \in 1..Len(out) : out[k] \in Range(cands)
            /\ \A k, l \in 1..Len(out) : out[k].id = out[l].id => k = l
            /\ \A i \in left : \A k \in 1..Len(out) :
                  RatLe(cands[i].relevance, out[k].relevance)
            /\ \A k, l \in 1..Len(out) :
                  (RatLt(Zero, out[k].relevance) /\ out[l].relevance = Zero) => k < l
            /\ \A i \in left :
                  RatLt(Zero, cands[i].relevance) =>
                      Cardinality({j \in 1..n : /\ j # i
                                                /\ RatLe(cands[i].relevance,
                                                         cands[j].relevance)}) >= 10

\* fifteen candidates for the query "a", the first of relevance 0: ten were
\* returned, all of relevance 1
RankedTenOfFifteen ==
    /\ qRanked # << >>
    /\ rQuery = <<"a">>
    /\ Len(qFound) = 15
    /\ qFound[1].relevance = Zero
    /\ Len(qRanked[1]) = 10
    /\ qRanked[1][10].relevance = One

\* the pieces of str between its runs of whitespace, as pairs <<first, last>>
\* of positions: the maximal runs of other characters, and an empty piece
\* before a leading and after a trailing whitespace character and for the
\* empty text
Pieces(str) ==
    {p \in (1..(Len(str) + 1)) \X (0..Len(str)) :
        /\ p[2] >= p[1] - 1
        /\ \A i \in p[1]..p[2] : str[i] # " "
        /\ (p[1] = 1 \/ str[p[1] - 1] = " ")
        /\ (p[2] = Len(str) \/ str[p[2] + 1] = " ")
        /\ (p[2] >= p[1] \/ p[1] = 1 \/ p[2] = Len(str))}

SaveFailureKeepsResults ==
    /\ qSave.state # "raised"
    /\ qEnded.save \in {"error", "throws"} =>
          /\ qSave.state = "returned"
          /\ qPc = "done"
          /\ qResult.state = "returned"
          /\ uiQuery = qResult.value
          /\ uiResults = qResult.value[1].results

\* the insert threw and the component shows what query returned
SaveThrewResultsShown ==
    /\ qEnded.save = "throws"
    /\ qPc = "done"
    /\ uiResults = << [generated_text |-> "text"] >>
    /\ uiQuery # << >>

\* C16: when the call of the generative collaborator throws, query ends in a
\* failure and returns no RAGQuery: the caller holds none.
GenerativeFailurePropagates ==
    qEnded.insights = "throws" =>
        /\ qResult.state = "raised"
        /\ qResult.value = << >>
        /\ uiQuery = << >>
        /\ qEnded.save = "none"

\* the generative call threw after retrieval had ranked ten candidates
GenerativeCallThrewAfterRanking ==
    /\ qEnded.insights = "throws"
    /\ Len(qRanked[1]) = 10
    /\ qResult.state = "raised"
    /\ uiResults = MockResults

\* the group analyzeTrend was last called for, while its Trend is awaited
AnalysedMembers == groups[1][cur[1]].members

\* the timestamps, in minutes, of the posts of a group
Stamps(ps, members) == {PostOf(ps[members[i]]).ts : i \in 1..Len(members)}

\* minutes between the newest and the oldest post of a group
SpanOf(ps, members) ==
    (CHOOSE t \in Stamps(ps, members) : \A u \in Stamps(ps, members) : u <= t)
    - (CHOOSE t \in Stamps(ps, members) : \A u \in Stamps(ps, members) : t <= u)

EngagementOf(ps, members) ==
    SumSeq([i \in 1..Len(members) |-> Eng(PostOf(ps[members[i]]))])

\* m holds the post count and the engagement sum of the group, and each of
\* them divided by the hours between its newest and its oldest post, or by 1
\* when these are less than an hour apart
RatesPerHour(m, ps, members) ==
    /\ m.mentions = Len(members)
    /\ m.engagement = EngagementOf(ps, members)
    /\ IF SpanOf(ps, members) <= 60
       THEN /\ m.growthRate = Int2Rat(Len(members))
            /\ m.velocity = Int2Rat(EngagementOf(ps, members))
       ELSE /\ m.growthRate = Rat(60 * Len(members), SpanOf(ps, members))
            /\ m.velocity = Rat(60 * EngagementOf(ps, members), SpanOf(ps, members))

\* C21: the metrics of every analysed topic group have growthRate =
\* mentions / max(1, h) and velocity = engagement / max(1, h), h being the
\* hours between the newest and the oldest timestamp of the group's posts,
\* mentions the number of its posts and engagement the sum of their likes,
\* shares and comments.
MetricsAreRatesPerHour ==
    /\ (pc[1] = "awaiting" /\ pending[1] # << >>) =>
          RatesPerHour(pending[1][1].metrics, posts[1], AnalysedMembers)
    /\ \A i \in 1..Len(result[1].trends) :
          \E g \in 1..Len(groups[1]) :
              /\ groups[1][g].topic = result[1].trends[i].topic
              /\ RatesPerHour(result[1].trends[i].metrics, posts[1], groups[1][g].members)

\* a group of 10 posts spanning exactly 2 hours with total engagement 400
\* was analysed: velocity 200, growthRate 5
TenPostsOverTwoHours ==
    /\ pc[1] = "awaiting"
    /\ pending[1] # << >>
    /\ Len(AnalysedMembers) = 10
    /\ SpanOf(posts[1], AnalysedMembers) = 120
    /\ pending[1][1].metrics.engagement = 400
    /\ pending[1][1].metrics.velocity = Int2Rat(200)
    /\ pending[1][1].metrics.growthRate = Int2Rat(5)

\* the posts of a group whose timestamp falls into the clock hour starting at hr
BucketOf(ps, members, hr) ==
    SelectSeq(members, LAMBDA m : PostOf(ps[m]).ts - (PostOf(ps[m]).ts % 60) = hr)

\* the labels that more than 60% of the posts of a bucket carry
Over60(ps, bucket) ==
    {l \in Labels : 10 * CountLabel(ps, bucket, l) > 6 * Len(bucket)}

\* C22: the sentiment of every timeline point of an analysed group is the
\* one label, of the four, that strictly more than 60% of the posts of its
\* hour carry, and mixed when no label does.
DominantIsOverSixtyPercent ==
    (pc[1] = "awaiting" /\ pending[1] # << >>) =>
        \A i \in 1..Len(pending[1][1].timeline) :
            LET pt == pending[1][1].timeline[i]
                over == Over60(posts[1], BucketOf(posts[1], AnalysedMembers, pt.timestamp))
            IN  /\ Cardinality(over) <= 1
                /\ BucketOf(posts[1], AnalysedMembers, pt.timestamp) # << >>
                /\ IF over = {} THEN pt.sentiment = "mixed" ELSE pt.sentiment \in over

\* an hour of five posts, three positive (exactly 60%), one negative and one
\* labelled mixed, has the dominant sentiment mixed
ExactlySixtyPercentPositive ==
    /\ pc[1] = "awaiting"
    /\ pending[1] # << >>
    /\ \E i \in 1..Len(pending[1][1].timeline) :
          LET pt == pending[1][1].timeline[i]
              bucket == BucketOf(posts[1], AnalysedMembers, pt.timestamp)
          IN  /\ Len(bucket) = 5
              /\ CountLabel(posts[1], bucket, "positive") = 3
              /\ CountLabel(posts[1], bucket, "negative") = 1
              /\ CountLabel(posts[1], bucket, "mixed") = 1
              /\ pt.sentiment = "mixed"

\* what identifyViralityFactors gives for a row of each kind
KindFactors ==
    [k \in Kinds |-> identifyViralityFactors(PostOf(k).engagement, PostOf(k).sentiment,
                                             PostOf(k).metadata, PostOf(k).content)]

\* the factors identifyViralityFactors gives for each of the 10 posts of
\* highest engagement among top, the posts taken as the table holds them
FactorsOfPosts(ps, top) == Flatten([i \in 1..Len(top) |-> KindFactors[ps[top[i]]]])

TopTenFactors(ps, members) ==
    FactorsOfPosts(ps, Slice(SortedByEngagement(ps, members), 10))

\* the evidence array of a merged factor, read through the mentions arrays h
EvidenceOf(f, h) == IF f.ref # 0 THEN h[f.ref] ELSE f.own

\* f is the merge of the factors of its category among per
MergesCategory(f, h, per) ==
    LET mine == SelectSeq(per, LAMBDA x : x.type = f.type)
    IN  /\ mine # << >>
        /\ \E i \in 1..Len(mine) : mine[i].impact = f.impact
        /\ \A i \in 1..Len(mine) : RatLe(mine[i].impact, f.impact)
        /\ EvidenceOf(f, h) = Flatten([i \in 1..Len(mine) |-> mine[i].evidence])

\* C23: the virality factors of every analysed group are at most 5, no two
\* of the same category, and each has the greatest impact and the
\* concatenated evidence of the factors of its category that
\* identifyViralityFactors gives for the group's 10 posts of highest
\* engagement.
FactorsMergeTopTenPosts ==
    (pc[1] = "awaiting" /\ pending[1] # << >>) =>
        LET fs == pending[1][1].viralityFactors
        IN  /\ Len(fs) <= 5
            /\ \A i, j \in 1..Len(fs) : fs[i].type = fs[j].type => i = j
            /\ \A per \in {TopTenFactors(posts[1], AnalysedMembers)} :
                  \A i \in 1..Len(fs) : MergesCategory(fs[i], heap[1], per)

\* the group #trend of five posts, each mentioning one account, was analysed
\* after the group #fyp of the same posts: its factor influencer_mentions
\* has impact 1 and nine evidence strings
FactorOfRewrittenPost ==
    /\ pc[1] = "awaiting"
    /\ pending[1] # << >>
    /\ pending[1][1].topic = <<"#trend">>
    /\ Len(AnalysedMembers) = 5
    /\ \A i \in 1..5 : Len(PostOf(posts[1][AnalysedMembers[i]]).metadata.mentions) = 1
    /\ \E i \in 1..Len(pending[1][1].viralityFactors) :
          /\ pending[1][1].viralityFactors[i].type = "influencer_mentions"
          /\ pending[1][1].viralityFactors[i].impact = One
          /\ Len(EvidenceOf(pending[1][1].viralityFactors[i], heap[1])) = 9

\* the authors of the posts of a group
AuthorsOf(ps, members) == {PostOf(ps[members[i]]).author : i \in 1..Len(members)}

\* how many posts of a group are by author a
PostCount(ps, members, a) ==
    Cardinality({i \in 1..Len(members) : PostOf(ps[members[i]]).author = a})

\* the engagement sum of the posts of a group by author a
AuthorTotal(ps, members, a) ==
    EngagementOf(ps, SelectSeq(members, LAMBDA m : PostOf(ps[m]).author = a))

\* C24: the influencers of every analysed group are at most 5 (all authors
\* of the group when these are fewer), one per distinct author, in
\* non-increasing order of the author's engagement sum within the group; no
\* author left out has a strictly greater sum than a listed one; and each
\* entry has engagementRate = the author's sum / the author's post count
\* and influence = the author's sum / the size of the group.
InfluencersAreTopFiveAuthors ==
    (pc[1] = "awaiting" /\ pending[1] # << >>) =>
        LET inf == pending[1][1].influencers
            ps == posts[1]
            all == AuthorsOf(posts[1], AnalysedMembers)
            listed == {inf[i].id : i \in 1..Len(inf)}
        IN  /\ Len(inf) = (IF Cardinality(all) < 5 THEN Cardinality(all) ELSE 5)
            /\ listed \subseteq all
            /\ \A i, j \in 1..Len(inf) : inf[i].id = inf[j].id => i = j
            /\ \A i \in 1..(Len(inf) - 1) :
                  AuthorTotal(ps, AnalysedMembers, inf[i].id)
                      >= AuthorTotal(ps, AnalysedMembers, inf[i + 1].id)
            /\ \A a \in all \ listed : \A b \in listed :
                  AuthorTotal(ps, AnalysedMembers, a) <= AuthorTotal(ps, AnalysedMembers, b)
            /\ \A i \in 1..Len(inf) :
                  /\ inf[i].engagementRate =
                        Rat(AuthorTotal(ps, AnalysedMembers, inf[i].id),
                            PostCount(ps, AnalysedMembers, inf[i].id))
                  /\ inf[i].influence =
                        Rat(AuthorTotal(ps, AnalysedMembers, inf[i].id), Len(AnalysedMembers))

\* a group of six authors was analysed: the author of the newest posts, who
\* wrote several of them, is left out, and two listed authors have equal sums
SixAuthorsFiveListed ==
    /\ pc[1] = "awaiting"
    /\ pending[1] # << >>
    /\ Cardinality(AuthorsOf(posts[1], AnalysedMembers)) = 6
    /\ Len(pending[1][1].influencers) = 5
    /\ PostOf(posts[1][AnalysedMembers[1]]).author = "dave"
    /\ PostCount(posts[1], AnalysedMembers, "dave") > 1
    /\ \A i \in 1..5 : pending[1][1].influencers[i].id # "dave"
    /\ pending[1][1].influencers[2].influence = pending[1][1].influencers[3].influence

\* C27: the timeline of every analysed group partitions the group by clock
\* hour: its points have hour-truncated timestamps in strictly ascending
\* order, every post of the group falls into exactly one point, each point
\* holds the count and the engagement sum of the posts of its hour, and the
\* points' mentions and engagement sum to the mentions and the engagement of
\* the metrics.
TimelinePartitionsGroup ==
    (pc[1] = "awaiting" /\ pending[1] # << >>) =>
        LET tl == pending[1][1].timeline
            hourOf(m) == PostOf(posts[1][m]).ts - (PostOf(posts[1][m]).ts % 60)
        IN  /\ \A i \in 1..Len(tl) : tl[i].timestamp % 60 = 0
            /\ \A i \in 1..(Len(tl) - 1) : tl[i].timestamp < tl[i + 1].timestamp
            /\ \A n \in 1..Len(AnalysedMembers) :
                  Cardinality({i \in 1..Len(tl) :
                                  tl[i].timestamp = hourOf(AnalysedMembers[n])}) = 1
            /\ \A i \in 1..Len(tl) :
                  /\ tl[i].mentions = Len(BucketOf(posts[1], AnalysedMembers, tl[i].timestamp))
                  /\ tl[i].mentions > 0
                  /\ tl[i].engagement =
                        EngagementOf(posts[1], BucketOf(posts[1], AnalysedMembers, tl[i].timestamp))
            /\ SumSeq([i \in 1..Len(tl) |-> tl[i].mentions]) = pending[1][1].metrics.mentions
            /\ SumSeq([i \in 1..Len(tl) |-> tl[i].engagement]) = pending[1][1].metrics.engagement

\* a group of posts from three clock hours was analysed, several of them in
\* the latest hour
TimelineOfThreeHours ==
    /\ pc[1] = "awaiting"
    /\ pending[1] # << >>
    /\ Len(pending[1][1].timeline) = 3
    /\ pending[1][1].timeline[1].timestamp = 1080
    /\ pending[1][1].timeline[3].timestamp = 1200
    /\ pending[1][1].timeline[3].mentions = 11
    /\ pending[1][1].metrics.mentions = 13

\* C28: the platform of every influencer of an analysed group is the
\* platform of the group's Trend.
InfluencerPlatformIsTrendPlatform ==
    (pc[1] = "awaiting" /\ pending[1] # << >>) =>
        \A i \in 1..Len(pending[1][1].influencers) :
            pending[1][1].influencers[i].platform = pending[1][1].platform

\* platforms of the posts of a group, each with the number of its posts
PlatformCount(ps, members, pl) ==
    Cardinality({i \in 1..Len(members) : PostOf(ps[members[i]]).platform = pl})

\* twitter and reddit tie with two posts each; the newest post is on
\* twitter and the post of highest engagement on reddit: the influencers
\* have platform twitter, the Trend has platform reddit
TiedPlatformsDiffer ==
    /\ pc[1] = "awaiting"
    /\ pending[1] # << >>
    /\ PlatformCount(posts[1], AnalysedMembers, "twitter") = 2
    /\ PlatformCount(posts[1], AnalysedMembers, "reddit") = 2
    /\ Len(AnalysedMembers) = 5
    /\ PostOf(posts[1][AnalysedMembers[1]]).platform = "twitter"
    /\ pending[1][1].platform = "reddit"
    /\ \A i \in 1..Len(pending[1][1].influencers) :
          pending[1][1].influencers[i].platform = "twitter"

\* the categories of the factors in fs
TypesOf(fs) == {fs[i].type : i \in 1..Len(fs)}

\* C25: for a post with sentiment score in [-1,1] and engagement counts of
\* 0 or more, identifyViralityFactors returns at most one factor per category;
\* the factor of each category is returned exactly when the condition of
\* its own rule holds, whatever the other rules do; and every factor
\* returned has an impact of at least 0 and at most 1.
FactorRulesIndependent ==
    fOut # << >> =>
        LET fs == fOut[1]
            e == fPost[1].engagement
            sn == fPost[1].sentiment
            md == fPost[1].metadata
        IN  /\ \A i, j \in 1..Len(fs) : fs[i].type = fs[j].type => i = j
            /\ "high_engagement" \in TypesOf(fs) <=> e.likes + e.shares + e.comments > 1000
            /\ "viral_sharing" \in TypesOf(fs)
                   <=> 10 * e.shares > 3 * (IF e.likes > 1 THEN e.likes ELSE 1)
            /\ "positive_emotion" \in TypesOf(fs)
                   <=> (sn.label = "positive" /\ 2 * sn.score.n > sn.score.d)
            /\ "controversial" \in TypesOf(fs)
                   <=> (sn.label = "negative" /\ 10 * sn.score.n < -3 * sn.score.d)
            /\ "trending_hashtags" \in TypesOf(fs)
                   <=> \E i \in 1..Len(md.hashtags) : Lower(md.hashtags[i]) \in TrendingTags
            /\ "influencer_mentions" \in TypesOf(fs) <=> md.mentions # << >>
            /\ "time_sensitive" \in TypesOf(fs)
                   <=> \E k \in TimeKeywords : Includes(fPost[1].content, k)
            /\ TypesOf(fs) \subseteq {"high_engagement", "viral_sharing", "positive_emotion",
                                      "controversial", "trending_hashtags",
                                      "influencer_mentions", "time_sensitive"}
            /\ \A i \in 1..Len(fs) : RatLe(Zero, fs[i].impact) /\ RatLe(fs[i].impact, One)

\* six rules fired on one post, a negative post of score -1 with total
\* engagement 1401, three of them with impact 1
SixFactorsOnOnePost ==
    /\ fOut # << >>
    /\ Len(fOut[1]) = 6
    /\ fPost[1].sentiment.score = Rat(-1, 1)
    /\ fOut[1][1].type = "high_engagement"
    /\ fOut[1][1].impact = Rat(1401, 10000)
    /\ Cardinality({i \in 1..6 : fOut[1][i].impact = One}) = 3

\* processing the raw post of kind k meets an error: it is null, or its
\* text is no string
RawFails(k) == k \in {"null", "number"}

\* the raw post of kind k is analysable and within the filters of Config:
\* engagement of at least 10 and no excluded keyword
RawPasses(k) == k \in {"tweet", "tagged", "bare"}

\* the positions from..n of the batch whose raw post passes, in order
RECURSIVE PassingFrom(_, _)
PassingFrom(raw, from) ==
    IF from > Len(raw) THEN << >>
    ELSE IF RawPasses(raw[from]) THEN <<from>> \o PassingFrom(raw, from + 1)
    ELSE PassingFrom(raw, from + 1)

\* C26: processPosts does not raise; when it has returned, its output holds,
\* in the order of the batch, exactly the raw posts that are analysable and
\* pass the filters, each with its own text, author and engagement: a raw
\* post whose processing met an error is left out and nothing else is.
BatchSkipsOnlyFailures ==
    /\ bResult.state # "raised"
    /\ bResult.state = "returned" =>
          /\ bNext = Len(bRaw) + 1
          /\ [i \in 1..Len(bResult.value) |-> bResult.value[i].id] = PassingFrom(bRaw, 1)
          /\ \A i \in 1..Len(bResult.value) :
                LET post == bResult.value[i]
                IN  /\ ~RawFails(bRaw[post.id])
                    /\ post.content = RawTable[bRaw[post.id]].text
                    /\ post.engagement.likes = RawTable[bRaw[post.id]].like_count

\* a batch of three returned its first and its third post, the second being
\* null; the scorer threw on the third, which has the neutral default
NullPostSkippedBetweenTwo ==
    /\ bResult.state = "returned"
    /\ Len(bRaw) = 3
    /\ bRaw[2] = "null"
    /\ Len(bResult.value) = 2
    /\ bResult.value[1].id = 1
    /\ bResult.value[2].id = 3
    /\ bResult.value[2].content # << >>
    /\ bResult.value[2].sentiment = NeutralDefault
    /\ bResult.value[1].sentiment.label = "positive"

\* the loops of platform p that have not returned
LiveLoops(p) == {i \in 1..Len(loops) : loops[i].platform = p /\ loops[i].at # "ended"}

\* C29: at any time at most one loop of collectFromPlatform per configured
\* platform has not returned, whatever calls of startCollection and
\* stopCollection came before.
AtMostOneLoopPerPlatform ==
    \A i \in 1..Len(Platforms) : Cardinality(LiveLoops(Platforms[i])) <= 1

\* started, stopped and started again: the twitter loop of the first start
\* and the twitter loop of the second start are both in a fetch
TwoLoopsOnePlatform ==
    /\ started = <<"started", "started">>
    /\ isRunning
    /\ \E i, j \in LiveLoops("twitter") :
          /\ loops[i].gen = 1 /\ loops[j].gen = 2
          /\ loops[i].at = "fetch" /\ loops[j].at = "fetch"

AllLoopsEnded == \A i \in 1..Len(loops) : loops[i].at = "ended"

\* C30: if from some point on the flag stays clear (stopCollection was
\* called and no startCollection follows), then from some point on every
\* loop has returned; a loop goes from a timer to a new fetch only when the
\* flag is set, and a loop that has returned begins nothing.
StoppedLoopsTerminate ==
    /\ (<>[](~isRunning)) => <>[]AllLoopsEnded
    /\ [][\A i \in 1..Len(loops) :
            /\ (loops[i].at \in {"delay", "retry"} /\ loops'[i].at = "fetch") => isRunning
            /\ loops[i].at = "ended" => loops'[i].at = "ended"]_vars

\* started, a second start rejected, then stopped: both loops of the one
\* start have returned
BothLoopsReturnedAfterStop ==
    /\ ~isRunning
    /\ started = <<"started", "Data collection is already running">>
    /\ Len(loops) = 2
    /\ loops[1].at = "ended"
    /\ loops[2].at = "ended"

=============================================================================
